---- MODULE Spec2Model ----
(***************************************************************************)
(* BAMSYSTEM account store: the encrypted card files, the chained hash     *)
(* index that caches them (account.c) and the push/pull reconciliation     *)
(* with the remote account service (account.c, server_api.c).              *)
(*                                                                         *)
(* A 64-bit LLUINT is modelled by its 8 bytes in memory order (little      *)
(* endian), so that memcpy into the 16-byte buffer, the XOR mask and the   *)
(* bytes fscanf/fread consume are what the code works on.  An identifier   *)
(* is the sequence of its character codes.                                 *)
(***************************************************************************)
EXTENDS Integers, Sequences, FiniteSets, TLC

(* ------------------------------ bounds -------------------------------- *)

\* Number of distinct account identifiers the specifications range over.
NumIds == 2

(* ------------------------- program constants -------------------------- *)

INITIAL_HASH_TABLE_SIZE == 16
\* LOAD_FACTOR_THRESHOLD 0.75 as the exact fraction ThresholdNum / ThresholdDen
ThresholdNum == 3
ThresholdDen == 4
\* sizeof(LLUINT)
LLUINT_SIZE == 8
\* sizeof(g_system_key)
KEY_SIZE == 16
\* DJB2 seed and multiplier ((hash << 5) + hash)
HASH_SEED == 5381
HASH_MULT == 33

(* ------------------------------ bytes --------------------------------- *)

RECURSIVE XorBits(_, _, _)
\* bitwise exclusive or of the low n bits of a and b (C's ^ on unsigned char)
XorBits(a, b, n) ==
  IF n = 0 THEN 0
  ELSE (((a % 2) + (b % 2)) % 2) + 2 * XorBits(a \div 2, b \div 2, n - 1)

RECURSIVE ByteAt(_, _)
\* byte i (0 = least significant) of the natural number n
ByteAt(n, i) == IF i = 0 THEN n % 256 ELSE ByteAt(n \div 256, i - 1)

\* a ^ b for unsigned char a, b, tabulated once
Xor8 == [a \in 0..255 |-> [b \in 0..255 |-> XorBits(a, b, 8)]]

\* the in-memory bytes of the LLUINT whose value is n (n below 2^31)
U64(n) == [i \in 1..LLUINT_SIZE |-> ByteAt(n, i - 1)]

\* isspace() in the C locale: the bytes a white-space directive of fscanf eats
IsSpace(b) == b \in {9, 10, 11, 12, 13, 32}

RECURSIVE SkipSpace(_)
SkipSpace(s) == IF s # <<>> /\ IsSpace(Head(s)) THEN SkipSpace(Tail(s)) ELSE s

(* ------------------------- identifiers, values ------------------------ *)

\* identifiers "a", "q", "b", "r", ...: consecutive pairs share a bucket of 16
IdOf(i) == IF i % 2 = 1 THEN << 97 + (i - 1) \div 2 >> ELSE << 113 + (i - 2) \div 2 >>
UUIDs == { IdOf(i) : i \in 1..NumIds }

\* 1234688 = 0x12D700 (low byte 0x00), 7654321 = 0x74CBB1
PASSWORDS == { U64(1234688), U64(7654321) }
BALANCES == { U64(500), U64(900) }

ACCOUNT(uuid, password, balance) ==
  [UUID |-> uuid, PASSWORD |-> password, BALANCE |-> balance]
NoAccount == ACCOUNT(<<>>, U64(0), U64(0))
\* the accounts the callers of the store pass in
Accounts == { ACCOUNT(u, U64(1234688), U64(500)) : u \in UUIDs }
              \cup { ACCOUNT(u, U64(7654321), U64(900)) : u \in UUIDs }

\* the keys uuid_generate_random may produce that the model draws from:
\* KeyA masks no block byte of the values above to white space, KeyB has 0x20
\* as its first byte
KeyA == [i \in 1..KEY_SIZE |-> (17 * i + 3) % 256]
KeyB == [i \in 1..KEY_SIZE |-> IF i = 1 THEN 32 ELSE (29 * i + 7) % 256]
KEYS == { KeyA, KeyB }
ZeroKey == [i \in 1..KEY_SIZE |-> 0]

(* ------------------------------ cipher -------------------------------- *)

\* a cipher that adds the key byte instead of xoring it
xor_encrypt_decrypt_add(data, key_loaded, key) ==
  IF ~key_loaded THEN data
  ELSE [i \in 1..Len(data) |-> (data[i] + key[((i - 1) % KEY_SIZE) + 1]) % 256]

\* xor_encrypt_decrypt(data, len) under the globals g_key_loaded / g_system_key:
\* without a loaded key the buffer is returned as it came
xor_encrypt_decrypt(data, key_loaded, key) ==
  IF ~key_loaded THEN data
  ELSE [i \in 1..Len(data) |-> Xor8[data[i]][key[((i - 1) % KEY_SIZE) + 1]]]

(* ---------------------------- hash index ------------------------------ *)
(* The table is [initialized, size, count, buckets]; buckets[i + 1] is the *)
(* chain of C bucket i, head first.  calloc_ok / malloc_ok say whether the *)
(* allocation the call may make succeeds.                                  *)

EmptyTable == [initialized |-> FALSE, size |-> 0, count |-> 0, buckets |-> <<>>]

RECURSIVE hash_loop(_, _, _)
hash_loop(str, hash, table_size) ==
  IF str = <<>> THEN hash
  ELSE hash_loop(Tail(str), (hash * HASH_MULT + Head(str)) % table_size, table_size)

\* DJB2 reduced modulo the bucket count; the bucket count divides 2^64, so
\* reducing at every step gives the same residue as reducing once at the end
hash_function(str, table_size) == hash_loop(str, HASH_SEED % table_size, table_size)

\* a resize that waits until the load factor is above the threshold
LoadFactorReached_above(ht) ==
  ht.size # 0 /\ ht.count * ThresholdDen > ThresholdNum * ht.size

\* calculate_load_factor() >= load_factor_threshold
LoadFactorReached(ht) ==
  ht.size # 0 /\ ht.count * ThresholdDen >= ThresholdNum * ht.size

\* position of uuid in a chain, 0 when absent
ChainPos(chain, uuid) ==
  IF \E k \in 1..Len(chain) : chain[k].UUID = uuid
  THEN CHOOSE k \in 1..Len(chain) :
         chain[k].UUID = uuid /\ \A j \in 1..(k - 1) : chain[j].UUID # uuid
  ELSE 0

RECURSIVE ConcatRange(_, _, _)
\* the nodes of buckets lo..hi, bucket after bucket
ConcatRange(buckets, lo, hi) ==
  IF lo > hi THEN <<>>
  ELSE IF lo = hi THEN buckets[lo]
  ELSE ConcatRange(buckets, lo, (lo + hi) \div 2)
         \o ConcatRange(buckets, (lo + hi) \div 2 + 1, hi)

\* the nodes of buckets i..Len(buckets) in the order the rehash loop visits them
Concat(buckets, i) == ConcatRange(buckets, i, Len(buckets))

\* a rehash that keeps every node in the bucket it had under the old size
Rehash_old_index(nodes, new_buckets, new_size) ==
  [j \in 1..new_size |->
     LET mine == SelectSeq(nodes,
                           LAMBDA e : hash_function(e.UUID, new_size \div 2) + 1 = j)
     IN mine \o new_buckets[j]]

\* a rehash that copies every node into newly allocated memory instead of
\* relinking it
Rehash_new_nodes(nodes, new_buckets, new_size) ==
  LET n == Len(nodes)
      new_index == [k \in 1..n |-> hash_function(nodes[k].UUID, new_size) + 1]
      backwards == [k \in 1..n |-> [node |-> [nodes[n + 1 - k] EXCEPT !.node = @ + new_size],
                                    index |-> new_index[n + 1 - k]]]
  IN [j \in 1..new_size |->
        LET mine == SelectSeq(backwards, LAMBDA e : e.index = j)
        IN [k \in 1..Len(mine) |-> mine[k].node] \o new_buckets[j]]

\* head-insert each node, in turn, into the bucket its identifier has under
\* new_size: a bucket ends up with its nodes in the reverse of their order in
\* nodes, before what it held
Rehash(nodes, new_buckets, new_size) ==
  LET n == Len(nodes)
      new_index == [k \in 1..n |-> hash_function(nodes[k].UUID, new_size) + 1]
      backwards == [k \in 1..n |-> [node |-> nodes[n + 1 - k],
                                    index |-> new_index[n + 1 - k]]]
  IN [j \in 1..new_size |->
        LET mine == SelectSeq(backwards, LAMBDA e : e.index = j)
        IN [k \in 1..Len(mine) |-> mine[k].node] \o new_buckets[j]]

resize_hash_table(ht, calloc_ok) ==
  LET new_size == ht.size * 2 IN
  IF ~calloc_ok THEN [ht |-> ht, ret |-> FALSE]
  ELSE [ht |-> [ht EXCEPT !.size = new_size,
                          !.buckets = Rehash(Concat(ht.buckets, 1),
                                             [i \in 1..new_size |-> <<>>],
                                             new_size)],
        ret |-> TRUE]

\* init_account_hash_table without the early return for a table that is
\* already initialised
init_account_hash_table_again(ht, calloc_ok) ==
  IF ~calloc_ok THEN [ht |-> ht, ret |-> FALSE]
  ELSE [ht |-> [initialized |-> TRUE,
                size |-> INITIAL_HASH_TABLE_SIZE,
                count |-> 0,
                buckets |-> [i \in 1..INITIAL_HASH_TABLE_SIZE |-> <<>>]],
        ret |-> TRUE]

init_account_hash_table(ht, calloc_ok) ==
  IF ht.initialized THEN [ht |-> ht, ret |-> TRUE]
  ELSE IF ~calloc_ok THEN [ht |-> ht, ret |-> FALSE]
  ELSE [ht |-> [initialized |-> TRUE,
                size |-> INITIAL_HASH_TABLE_SIZE,
                count |-> 0,
                buckets |-> [i \in 1..INITIAL_HASH_TABLE_SIZE |-> <<>>]],
        ret |-> TRUE]

cleanup_account_hash_table(ht) == IF ~ht.initialized THEN ht ELSE EmptyTable

hash_find_account(ht, uuid) ==
  IF ~ht.initialized THEN [found |-> FALSE, account |-> NoAccount]
  ELSE LET chain == ht.buckets[hash_function(uuid, ht.size) + 1]
           k == ChainPos(chain, uuid)
       IN IF k = 0 THEN [found |-> FALSE, account |-> NoAccount]
          ELSE [found |-> TRUE, account |-> chain[k]]

\* current->account = *acc: the node keeps its place in memory (the field
\* node, where the specification follows the nodes' addresses) and takes the
\* three fields of acc
Assigned(current, acc) ==
  [current EXCEPT !.UUID = acc.UUID, !.PASSWORD = acc.PASSWORD, !.BALANCE = acc.BALANCE]

\* hash_insert_account without the search for an existing node
hash_insert_account_always_new(ht, acc, calloc_ok, malloc_ok) ==
  IF ~ht.initialized THEN [ht |-> ht, ret |-> FALSE]
  ELSE
    LET grown == IF LoadFactorReached(ht) THEN resize_hash_table(ht, calloc_ok)
                 ELSE [ht |-> ht, ret |-> TRUE]
        t == grown.ht
        index == hash_function(acc.UUID, t.size) + 1
    IN IF ~grown.ret THEN [ht |-> ht, ret |-> FALSE]
       ELSE IF ~malloc_ok THEN [ht |-> t, ret |-> FALSE]
       ELSE [ht |-> [t EXCEPT !.buckets[index] = <<acc>> \o @,
                              !.count = @ + 1],
             ret |-> TRUE]

hash_insert_account(ht, acc, calloc_ok, malloc_ok) ==
  IF ~ht.initialized THEN [ht |-> ht, ret |-> FALSE]
  ELSE
    LET grown == IF LoadFactorReached(ht) THEN resize_hash_table(ht, calloc_ok)
                 ELSE [ht |-> ht, ret |-> TRUE]
        t == grown.ht
        index == hash_function(acc.UUID, t.size) + 1
        k == ChainPos(t.buckets[index], acc.UUID)
    IN IF ~grown.ret THEN [ht |-> ht, ret |-> FALSE]
       ELSE IF k # 0
         THEN [ht |-> [t EXCEPT !.buckets[index][k] = Assigned(@, acc)], ret |-> TRUE]
       ELSE IF ~malloc_ok THEN [ht |-> t, ret |-> FALSE]
       ELSE [ht |-> [t EXCEPT !.buckets[index] = <<acc>> \o @,
                              !.count = @ + 1],
             ret |-> TRUE]

hash_update_account(ht, acc, calloc_ok, malloc_ok) ==
  IF ~ht.initialized THEN [ht |-> ht, ret |-> FALSE]
  ELSE
    LET index == hash_function(acc.UUID, ht.size) + 1
        k == ChainPos(ht.buckets[index], acc.UUID)
    IN IF k # 0
         THEN [ht |-> [ht EXCEPT !.buckets[index][k] = Assigned(@, acc)], ret |-> TRUE]
       ELSE hash_insert_account(ht, acc, calloc_ok, malloc_ok)

\* hash_delete_account halving the table once the entries left would not
\* make a table of half the size resize
hash_delete_account_shrinks(ht, uuid) ==
  IF ~ht.initialized THEN [ht |-> ht, ret |-> FALSE]
  ELSE
    LET index == hash_function(uuid, ht.size) + 1
        chain == ht.buckets[index]
        k == ChainPos(chain, uuid)
        left == [ht EXCEPT
                   !.buckets[index] =
                      SubSeq(chain, 1, k - 1) \o SubSeq(chain, k + 1, Len(chain)),
                   !.count = @ - 1]
        half == ht.size \div 2
    IN IF k = 0 THEN [ht |-> ht, ret |-> FALSE]
       ELSE IF /\ ht.size > INITIAL_HASH_TABLE_SIZE
               /\ left.count * ThresholdDen < ThresholdNum * half
         THEN [ht |-> [left EXCEPT !.size = half,
                                   !.buckets = Rehash(Concat(left.buckets, 1),
                                                      [i \in 1..half |-> <<>>], half)],
               ret |-> TRUE]
       ELSE [ht |-> left, ret |-> TRUE]

\* hash_delete_account without the count-- after the node is freed
hash_delete_account_keeps_count(ht, uuid) ==
  IF ~ht.initialized THEN [ht |-> ht, ret |-> FALSE]
  ELSE
    LET index == hash_function(uuid, ht.size) + 1
        chain == ht.buckets[index]
        k == ChainPos(chain, uuid)
    IN IF k = 0 THEN [ht |-> ht, ret |-> FALSE]
       ELSE [ht |-> [ht EXCEPT
                       !.buckets[index] =
                          SubSeq(chain, 1, k - 1) \o SubSeq(chain, k + 1, Len(chain))],
             ret |-> TRUE]

\* hash_delete_account unlinking the chain from the node found to its end
hash_delete_account_drops_tail(ht, uuid) ==
  IF ~ht.initialized THEN [ht |-> ht, ret |-> FALSE]
  ELSE
    LET index == hash_function(uuid, ht.size) + 1
        chain == ht.buckets[index]
        k == ChainPos(chain, uuid)
    IN IF k = 0 THEN [ht |-> ht, ret |-> FALSE]
       ELSE [ht |-> [ht EXCEPT !.buckets[index] = SubSeq(chain, 1, k - 1),
                               !.count = @ - 1],
             ret |-> TRUE]

hash_delete_account(ht, uuid) ==
  IF ~ht.initialized THEN [ht |-> ht, ret |-> FALSE]
  ELSE
    LET index == hash_function(uuid, ht.size) + 1
        chain == ht.buckets[index]
        k == ChainPos(chain, uuid)
    IN IF k = 0 THEN [ht |-> ht, ret |-> FALSE]
       ELSE [ht |-> [ht EXCEPT
                       !.buckets[index] =
                          SubSeq(chain, 1, k - 1) \o SubSeq(chain, k + 1, Len(chain)),
                       !.count = @ - 1],
             ret |-> TRUE]

(* ------------------------------ files --------------------------------- *)
(* A card file is [exists, line, block]: the identifier line fprintf wrote  *)
(* (<<>> when the file holds no line) and the bytes that follow it.         *)

NoFile == [exists |-> FALSE, line |-> <<>>, block |-> <<>>]

\* what fopen / fprintf / fwrite / fclose of save_account may do
SaveOutcomes == {"ok", "open_fails", "write_fails", "write_short"}

(* The store operations work on the record W of the globals and the disk:   *)
(* [g_system_key, g_key_loaded, g_hash_table, cardDir, keyFile, cards].     *)

\* save_account with the index updated before the file is opened
save_account_index_first(W, acc, io, calloc_ok, malloc_ok) ==
  LET buffer == acc.PASSWORD \o acc.BALANCE
      enc == xor_encrypt_decrypt(buffer, W.g_key_loaded, W.g_system_key)
      upd == hash_update_account(W.g_hash_table, acc, calloc_ok, malloc_ok)
  IN IF ~W.cardDir \/ io = "open_fails"
       THEN [W |-> [W EXCEPT !.g_hash_table = upd.ht], ret |-> FALSE, hash |-> "none"]
     ELSE [W |-> [W EXCEPT !.cards[acc.UUID] =
                               [exists |-> TRUE, line |-> acc.UUID, block |-> enc],
                           !.g_hash_table = upd.ht],
           ret |-> TRUE,
           hash |-> IF upd.ret THEN "ok" ELSE "failed"]

save_account(W, acc, io, calloc_ok, malloc_ok) ==
  LET buffer == acc.PASSWORD \o acc.BALANCE
      enc == xor_encrypt_decrypt(buffer, W.g_key_loaded, W.g_system_key)
      written == CASE io = "ok" -> [exists |-> TRUE, line |-> acc.UUID, block |-> enc]
                   [] io = "write_short" ->
                        [exists |-> TRUE, line |-> acc.UUID,
                         block |-> SubSeq(enc, 1, LLUINT_SIZE)]
                   [] OTHER -> [exists |-> TRUE, line |-> <<>>, block |-> <<>>]
      upd == hash_update_account(W.g_hash_table, acc, calloc_ok, malloc_ok)
  IN IF ~W.cardDir \/ io = "open_fails"
       THEN [W |-> W, ret |-> FALSE, hash |-> "none"]
     ELSE [W |-> [W EXCEPT !.cards[acc.UUID] = written, !.g_hash_table = upd.ht],
           ret |-> TRUE,
           hash |-> IF upd.ret THEN "ok" ELSE "failed"]

load_account(W, uuid, fs_ok, calloc_ok, malloc_ok) ==
  LET cached_acc == hash_find_account(W.g_hash_table, uuid)
      file == W.cards[uuid]
      rest == SkipSpace(file.block)
      buffer == xor_encrypt_decrypt(SubSeq(rest, 1, 2 * LLUINT_SIZE),
                                    W.g_key_loaded, W.g_system_key)
      acc == ACCOUNT(file.line,
                     SubSeq(buffer, 1, LLUINT_SIZE),
                     SubSeq(buffer, LLUINT_SIZE + 1, 2 * LLUINT_SIZE))
      ins == hash_insert_account(W.g_hash_table, acc, calloc_ok, malloc_ok)
      failed == [W |-> W, ret |-> FALSE, acc |-> NoAccount, hash |-> "none",
                 src |-> "none"]
  IN IF cached_acc.found
       THEN [W |-> W, ret |-> TRUE, acc |-> cached_acc.account, hash |-> "none",
             src |-> "cache"]
     ELSE IF ~W.cardDir \/ ~fs_ok \/ ~file.exists THEN failed
     ELSE IF file.line = <<>> THEN failed
     ELSE IF Len(rest) < 2 * LLUINT_SIZE THEN failed
     ELSE [W |-> [W EXCEPT !.g_hash_table = ins.ht],
           ret |-> TRUE, acc |-> acc,
           hash |-> IF ins.ret THEN "ok" ELSE "failed",
           src |-> "file"]

\* delete_account_file without the hash_delete_account call
delete_account_file_keeps_entry(W, uuid, fs_ok) ==
  IF ~W.cardDir \/ ~fs_ok \/ ~W.cards[uuid].exists
    THEN [W |-> W, ret |-> FALSE, hash |-> "none"]
  ELSE [W |-> [W EXCEPT !.cards[uuid] = NoFile], ret |-> TRUE, hash |-> "none"]

\* delete_account_file with hash_delete_account called before remove()
delete_account_file_index_first(W, uuid, fs_ok) ==
  LET del == hash_delete_account(W.g_hash_table, uuid) IN
  IF ~W.cardDir \/ ~fs_ok \/ ~W.cards[uuid].exists
    THEN [W |-> [W EXCEPT !.g_hash_table = del.ht], ret |-> FALSE, hash |-> "none"]
  ELSE [W |-> [W EXCEPT !.cards[uuid] = NoFile, !.g_hash_table = del.ht],
        ret |-> TRUE,
        hash |-> IF W.g_hash_table.initialized THEN "ok" ELSE "failed"]

delete_account_file(W, uuid, fs_ok) ==
  LET del == hash_delete_account(W.g_hash_table, uuid) IN
  IF ~W.cardDir \/ ~fs_ok \/ ~W.cards[uuid].exists
    THEN [W |-> W, ret |-> FALSE, hash |-> "none"]
  ELSE [W |-> [W EXCEPT !.cards[uuid] = NoFile, !.g_hash_table = del.ht],
        ret |-> TRUE,
        hash |-> IF W.g_hash_table.initialized THEN "ok" ELSE "failed"]

\* the card file save_account writes for acc under the key of system.key
StoredCard(W, acc) ==
  [exists |-> TRUE, line |-> acc.UUID,
   block |-> xor_encrypt_decrypt(acc.PASSWORD \o acc.BALANCE, TRUE, W.keyFile.bytes)]

\* the .card files of the Card directory
CardFiles(W) == { u \in DOMAIN W.cards : W.cards[u].exists }

\* the enumerations readdir may give of a set of names
Orders(S) ==
  { o \in [1..Cardinality(S) -> S] : \A i, j \in DOMAIN o : i # j => o[i] # o[j] }

\* a loop's iterations run one after the other: the state the first ones
\* leave is computed before the next one starts (evaluation is lazy otherwise)
Evaluated(x) == x = x

RECURSIVE Preload(_, _, _, _)
\* the loop of init_account_system over the directory entries, in their
\* order: one entry, or the first half of the entries and then the rest
Preload(W, order, calloc_ok, malloc_ok) ==
  IF order = <<>> THEN W
  ELSE IF Len(order) = 1
    THEN LET r == load_account(W, Head(order), TRUE, calloc_ok, malloc_ok)
             ins == hash_insert_account(r.W.g_hash_table, r.acc, calloc_ok, malloc_ok)
         IN IF r.ret THEN [r.W EXCEPT !.g_hash_table = ins.ht] ELSE r.W
  ELSE LET first == Preload(W, SubSeq(order, 1, Len(order) \div 2),
                            calloc_ok, malloc_ok)
       IN IF Evaluated(first)
            THEN Preload(first, SubSeq(order, Len(order) \div 2 + 1, Len(order)),
                         calloc_ok, malloc_ok)
          ELSE first

init_account_system(W, mkdir_ok, new_key, key_ok, calloc_ok, malloc_ok, dir_ok, order) ==
  LET W1 == [W EXCEPT !.cardDir = TRUE]
      \* generate_system_key when system.key is absent
      W2 == IF W1.keyFile.exists THEN W1
            ELSE IF ~key_ok THEN [W1 EXCEPT !.g_system_key = new_key]
            ELSE [W1 EXCEPT !.g_system_key = new_key, !.g_key_loaded = TRUE,
                            !.keyFile = [exists |-> TRUE, bytes |-> new_key]]
      \* load_system_key
      W3 == [W2 EXCEPT !.g_system_key = W2.keyFile.bytes, !.g_key_loaded = TRUE]
      tab == init_account_hash_table(W3.g_hash_table, calloc_ok)
      W4 == [W3 EXCEPT !.g_hash_table = tab.ht]
  IN IF ~W.cardDir /\ ~mkdir_ok THEN [W |-> W, ret |-> FALSE]
     ELSE IF ~key_ok THEN [W |-> W2, ret |-> FALSE]
     ELSE IF ~tab.ret THEN [W |-> W3, ret |-> FALSE]
     ELSE IF ~dir_ok THEN [W |-> W4, ret |-> TRUE]
     ELSE [W |-> Preload(W4, order, calloc_ok, malloc_ok), ret |-> TRUE]

cleanup_account_system(W) ==
  [W EXCEPT !.g_hash_table = cleanup_account_hash_table(W.g_hash_table)]

(* --------------------------- remote, sync ----------------------------- *)
(* remote[u] = [present, balance] is the accounts table of the server.  A   *)
(* balance crosses the wire as a JSON number built from (double)BALANCE;    *)
(* that is exact below 2^53, and SpecSync sends no balance that large.      *)

NoRemote == [present |-> FALSE, balance |-> U64(0)]

\* What a call did, in the order the code does it: a remote request (api is
\* "check", "create", "deposit", "withdraw", "transfer", "delete", "sync" or
\* "fetch"; for check ok says that the answer was "Support";
\* for all but fetch the body holds uuid and the balance or amount, a
\* transfer also the target), a save_account (kind "save", amount: the
\* balance saved) or a delete_account_file (kind "delete").
Request(api, uuid, to, amount, ok) ==
  [kind |-> "request", api |-> api, uuid |-> uuid, to |-> to, amount |-> amount,
   ok |-> ok]
LocalEvent(kind, uuid, balance, ok) ==
  [kind |-> kind, api |-> "none", uuid |-> uuid, to |-> <<>>, amount |-> balance,
   ok |-> ok]
Requests(events) == SelectSeq(events, LAMBDA e : e.kind = "request")

\* sizes of uuids[100][37] and server_accounts[100]
MAX_SYNC_ACCOUNTS == 100

Min(a, b) == IF a < b THEN a ELSE b

\* init_server_api: [initialized, mode, ret] from the two globals
init_server_api(api_initialized, mode, curl_ok, config_ok) ==
  IF api_initialized THEN [initialized |-> TRUE, mode |-> mode, ret |-> TRUE]
  ELSE IF ~curl_ok THEN [initialized |-> FALSE, mode |-> mode, ret |-> FALSE]
  ELSE IF ~config_ok THEN [initialized |-> TRUE, mode |-> "LOCAL", ret |-> TRUE]
  ELSE [initialized |-> TRUE, mode |-> mode, ret |-> TRUE]

\* check_server_availability switching to Server mode on any status
check_server_availability_any_status(api_initialized, mode, status) ==
  IF ~api_initialized THEN [mode |-> mode, ret |-> "LOCAL"]
  ELSE IF status # "" THEN [mode |-> "SERVER", ret |-> "SERVER"]
  ELSE [mode |-> "LOCAL", ret |-> "LOCAL"]

\* check_server_availability: status is the "status" string of /api/check,
\* "" when the request or the parse fails
check_server_availability(api_initialized, mode, status) ==
  IF ~api_initialized THEN [mode |-> mode, ret |-> "LOCAL"]
  ELSE IF status = "Support" THEN [mode |-> "SERVER", ret |-> "SERVER"]
  ELSE [mode |-> "LOCAL", ret |-> "LOCAL"]

\* api_sync_account: the request carries uuid and balance; the server upserts
api_sync_account(R, mode, acc, net_ok) ==
  IF mode # "SERVER" \/ ~net_ok THEN [R |-> R, ret |-> FALSE]
  ELSE [R |-> [R EXCEPT ![acc.UUID] = [present |-> TRUE, balance |-> acc.BALANCE]],
        ret |-> TRUE]

\* api_fetch_all_accounts: the accounts of the response, in its order, at most
\* max_count of them, each with PASSWORD 0; count -1 on failure
api_fetch_all_accounts(R, mode, fetch_ok, order, max_count) ==
  IF mode # "SERVER" \/ ~fetch_ok THEN [count |-> -1, accounts |-> <<>>]
  ELSE LET n == Min(Len(order), max_count)
       IN [count |-> n,
           accounts |-> [i \in 1..n |-> ACCOUNT(order[i], U64(0), R[order[i]].balance)]]

RECURSIVE PushLoop_break(_, _, _, _, _, _)
\* the loop of sync_all_accounts_to_server leaving at the first failure
PushLoop_break(st, mode, uuids, netOk, mem_ok, i) ==
  IF i > Len(uuids) THEN st
  ELSE LET r == load_account(st.W, uuids[i], TRUE, mem_ok, mem_ok)
           a == api_sync_account(st.R, mode, r.acc, uuids[i] \in netOk)
           q == Request("sync", r.acc.UUID, <<>>, r.acc.BALANCE, a.ret)
       IN IF ~r.ret THEN [st EXCEPT !.W = r.W, !.fail = @ + 1]
          ELSE IF ~a.ret
            THEN [st EXCEPT !.W = r.W, !.fail = @ + 1,
                            !.called = @ \cup {uuids[i]}, !.ok = FALSE,
                            !.reqs = Append(@, q)]
          ELSE PushLoop_break([st EXCEPT !.W = r.W, !.R = a.R, !.success = @ + 1,
                                         !.called = @ \cup {uuids[i]},
                                         !.reqs = Append(@, q)],
                              mode, uuids, netOk, mem_ok, i + 1)

RECURSIVE PushLoop(_, _, _, _, _, _)
\* the iterations i..Len(uuids) of the for loop of
\* sync_all_accounts_to_server, in their order: one iteration, or the first
\* half of them and then the rest; st = [W, R, success, fail, called, ok,
\* reqs]: the identifiers api_sync_account was called for, whether every such
\* call succeeded, and the requests in the order they were sent
PushLoop(st, mode, uuids, netOk, mem_ok, i) ==
  IF i > Len(uuids) THEN st
  ELSE IF i = Len(uuids)
    THEN LET r == load_account(st.W, uuids[i], TRUE, mem_ok, mem_ok)
             a == api_sync_account(st.R, mode, r.acc, uuids[i] \in netOk)
             q == Request("sync", r.acc.UUID, <<>>, r.acc.BALANCE, a.ret)
         IN IF ~r.ret THEN [st EXCEPT !.W = r.W, !.fail = @ + 1]
            ELSE IF a.ret
              THEN [st EXCEPT !.W = r.W, !.R = a.R, !.success = @ + 1,
                              !.called = @ \cup {uuids[i]},
                              !.reqs = Append(@, q)]
            ELSE [st EXCEPT !.W = r.W, !.fail = @ + 1,
                            !.called = @ \cup {uuids[i]}, !.ok = FALSE,
                            !.reqs = Append(@, q)]
  ELSE LET first == PushLoop(st, mode, SubSeq(uuids, 1, (i + Len(uuids)) \div 2),
                             netOk, mem_ok, i)
       IN IF Evaluated(first)
            THEN PushLoop(first, mode, uuids, netOk, mem_ok,
                          (i + Len(uuids)) \div 2 + 1)
          ELSE first

\* order: the enumeration of the Card directory; netOk: the identifiers whose
\* remote call succeeds
sync_all_accounts_to_server(W, R, mode, order, netOk, mem_ok) ==
  LET uuids == SubSeq(order, 1, Min(Len(order), MAX_SYNC_ACCOUNTS))
      st0 == [W |-> W, R |-> R, success |-> 0, fail |-> 0, called |-> {}, ok |-> TRUE,
              reqs |-> <<>>]
  IN IF mode # "SERVER" \/ Len(uuids) = 0 THEN st0
     ELSE PushLoop(st0, mode, uuids, netOk, mem_ok, 1)

RECURSIVE PullLoop(_, _, _, _, _)
\* the iterations i..Len(server_accounts) of the for loop of
\* pull_accounts_from_server, in their order: one iteration, or the first half
\* of them and then the rest; st = [W, success, fail, writes, reqs]: the
\* save_account calls made and the requests sent
PullLoop(st, server_accounts, ioOk, mem_ok, i) ==
  IF i > Len(server_accounts) THEN st
  ELSE IF i = Len(server_accounts)
    THEN LET acc == server_accounts[i]
             l == load_account(st.W, acc.UUID, TRUE, mem_ok, mem_ok)
             new == IF l.ret THEN ACCOUNT(acc.UUID, l.acc.PASSWORD, acc.BALANCE)
                    ELSE ACCOUNT(acc.UUID, U64(0), acc.BALANCE)
             sv == save_account(l.W, new,
                                IF acc.UUID \in ioOk THEN "ok" ELSE "open_fails",
                                mem_ok, mem_ok)
         IN IF l.ret /\ l.acc.BALANCE = acc.BALANCE
              THEN [st EXCEPT !.W = l.W, !.success = @ + 1]
            ELSE IF sv.ret
              THEN [st EXCEPT !.W = sv.W, !.success = @ + 1,
                              !.writes = Append(@, [acc |-> new, ret |-> TRUE])]
            ELSE [st EXCEPT !.W = sv.W, !.fail = @ + 1,
                            !.writes = Append(@, [acc |-> new, ret |-> FALSE])]
  ELSE LET first == PullLoop(st, SubSeq(server_accounts, 1,
                                        (i + Len(server_accounts)) \div 2),
                             ioOk, mem_ok, i)
       IN IF Evaluated(first)
            THEN PullLoop(first, server_accounts, ioOk, mem_ok,
                          (i + Len(server_accounts)) \div 2 + 1)
          ELSE first

\* pull_accounts_from_server made to mirror the server: the card files of the
\* identifiers outside the response are removed
pull_accounts_from_server_mirror(W, R, mode, fetch_ok, order, ioOk, mem_ok) ==
  LET f == api_fetch_all_accounts(R, mode, fetch_ok, order, MAX_SYNC_ACCOUNTS)
      st0 == [W |-> W, success |-> 0, fail |-> 0, writes |-> <<>>,
              reqs |-> IF mode = "SERVER"
                         THEN << Request("fetch", <<>>, <<>>, U64(0), fetch_ok) >>
                       ELSE <<>>]
      st == PullLoop(st0, f.accounts, ioOk, mem_ok, 1)
      got == { f.accounts[i].UUID : i \in DOMAIN f.accounts }
  IN IF mode # "SERVER" \/ f.count <= 0 THEN st0
     ELSE [st EXCEPT !.W.cards = [u \in DOMAIN @ |-> IF u \in got THEN @[u] ELSE NoFile]]

\* order: the accounts of the /api/accounts response; ioOk: the identifiers
\* whose card file can be opened for writing
pull_accounts_from_server(W, R, mode, fetch_ok, order, ioOk, mem_ok) ==
  LET f == api_fetch_all_accounts(R, mode, fetch_ok, order, MAX_SYNC_ACCOUNTS)
      st0 == [W |-> W, success |-> 0, fail |-> 0, writes |-> <<>>,
              reqs |-> IF mode = "SERVER"
                         THEN << Request("fetch", <<>>, <<>>, U64(0), fetch_ok) >>
                       ELSE <<>>]
  IN IF mode # "SERVER" \/ f.count <= 0 THEN st0
     ELSE PullLoop(st0, f.accounts, ioOk, mem_ok, 1)

\* the accounts of the server's table
RemoteAccounts(R) == { u \in DOMAIN R : R[u].present }

(* ------------------------- business operations ------------------------ *)
(* LLUINT arithmetic on the 8 bytes of a value, low byte first, as C and Go  *)
(* do it on unsigned 64-bit integers: + and - wrap.                          *)

RECURSIVE AddBytes(_, _, _, _)
AddBytes(a, b, i, carry) ==
  IF i > LLUINT_SIZE THEN <<>>
  ELSE << (a[i] + b[i] + carry) % 256 >>
         \o AddBytes(a, b, i + 1, (a[i] + b[i] + carry) \div 256)

RECURSIVE SubBytes(_, _, _, _)
SubBytes(a, b, i, borrow) ==
  IF i > LLUINT_SIZE THEN <<>>
  ELSE << (a[i] - b[i] - borrow + 256) % 256 >>
         \o SubBytes(a, b, i + 1, IF a[i] - b[i] - borrow < 0 THEN 1 ELSE 0)

RECURSIVE LessBytes(_, _, _)
LessBytes(a, b, i) ==
  IF i = 0 THEN FALSE
  ELSE IF a[i] # b[i] THEN a[i] < b[i]
  ELSE LessBytes(a, b, i - 1)

Add64(a, b) == AddBytes(a, b, 1, 0)
Sub64(a, b) == SubBytes(a, b, 1, 0)
Less64(a, b) == LessBytes(a, b, LLUINT_SIZE)

\* the password range of create_account
MIN_PASSWORD == 1000000
MAX_PASSWORD == 9999999

(* The handlers of the server.  net_ok: the request gets through and the     *)
(* response parses; the call returns true when the response says success.    *)

api_create_account(R, mode, acc, net_ok) ==
  IF mode # "SERVER" \/ ~net_ok \/ R[acc.UUID].present THEN [R |-> R, ret |-> FALSE]
  ELSE [R |-> [R EXCEPT ![acc.UUID] = [present |-> TRUE, balance |-> acc.BALANCE]],
        ret |-> TRUE]

api_deposit(R, mode, uuid, amount, net_ok) ==
  IF mode # "SERVER" \/ ~net_ok \/ ~R[uuid].present THEN [R |-> R, ret |-> FALSE]
  ELSE [R |-> [R EXCEPT ![uuid].balance = Add64(@, amount)], ret |-> TRUE]

api_withdraw(R, mode, uuid, amount, net_ok) ==
  IF mode # "SERVER" \/ ~net_ok \/ ~R[uuid].present THEN [R |-> R, ret |-> FALSE]
  ELSE IF Less64(R[uuid].balance, amount) THEN [R |-> R, ret |-> FALSE]
  ELSE [R |-> [R EXCEPT ![uuid].balance = Sub64(@, amount)], ret |-> TRUE]

api_transfer(R, mode, uuid_from, uuid_to, amount, net_ok) ==
  IF mode # "SERVER" \/ ~net_ok \/ ~R[uuid_from].present
    THEN [R |-> R, ret |-> FALSE]
  ELSE IF Less64(R[uuid_from].balance, amount) \/ ~R[uuid_to].present
    THEN [R |-> R, ret |-> FALSE]
  ELSE LET R1 == [R EXCEPT ![uuid_from].balance = Sub64(@, amount)]
       IN [R |-> [R1 EXCEPT ![uuid_to].balance = Add64(@, amount)], ret |-> TRUE]

api_delete_account(R, mode, uuid, net_ok) ==
  IF mode # "SERVER" \/ ~net_ok \/ ~R[uuid].present THEN [R |-> R, ret |-> FALSE]
  ELSE [R |-> [R EXCEPT ![uuid] = NoRemote], ret |-> TRUE]

RECURSIVE ListLoop(_, _, _)
\* the readdir loop of list_all_accounts
ListLoop(st, order, i) ==
  IF i > Len(order) THEN st
  ELSE LET r == load_account(st.W, order[i], TRUE, TRUE, TRUE)
       IN ListLoop([W |-> r.W, count |-> IF r.ret THEN st.count + 1 ELSE st.count],
                   order, i + 1)

\* list_all_accounts: [W, count], count the number of card files that loaded
list_all_accounts(W, order) ==
  IF ~W.cardDir THEN [W |-> W, count |-> 0]
  ELSE ListLoop([W |-> W, count |-> 0], order, 1)

(* A business operation gives [W, R, ret, events, writes, removed]: the      *)
(* store and the server's table after it, what it returned, its saves,       *)
(* deletes and requests in order, its save_account calls as [acc, ret], and  *)
(* the identifiers it removed.  An amount is [positive, cents]: whether the  *)
(* number typed passed amount > 0, and (LLUINT)(amount * 100).               *)

Done(W, R, ret, events, writes, removed) ==
  [W |-> W, R |-> R, ret |-> ret, events |-> events, writes |-> writes,
   removed |-> removed]

\* F of the value of x: the steps of an operation one after the other, each
\* on the result of the one before
With(x, F(_)) == F(x)

\* create_account mirroring to the server whatever the run mode
create_account_any_mode(W, R, mode, password, uuid, io, net_ok) ==
  LET new_account == ACCOUNT(uuid, password, U64(0))
      sv == save_account(W, new_account, io, TRUE, TRUE)
      a == api_create_account(R, "SERVER", new_account, net_ok)
      e == LocalEvent("save", uuid, new_account.BALANCE, sv.ret)
      w == << [acc |-> new_account, ret |-> sv.ret] >>
  IN IF Less64(password, U64(MIN_PASSWORD)) \/ Less64(U64(MAX_PASSWORD), password)
       THEN Done(W, R, FALSE, <<>>, <<>>, {})
     ELSE IF ~sv.ret THEN Done(sv.W, R, FALSE, << e >>, w, {})
     ELSE Done(sv.W, a.R, TRUE,
               << e, Request("create", uuid, <<>>, new_account.BALANCE, a.ret) >>,
               w, {})

\* uuid: what generate_uuid_string gives
\* create_account without the test of the password range
create_account_any_password(W, R, mode, password, uuid, io, net_ok) ==
  LET new_account == ACCOUNT(uuid, password, U64(0))
      sv == save_account(W, new_account, io, TRUE, TRUE)
      a == api_create_account(R, mode, new_account, net_ok)
      e == LocalEvent("save", uuid, new_account.BALANCE, sv.ret)
      w == << [acc |-> new_account, ret |-> sv.ret] >>
  IN IF FALSE
       THEN Done(W, R, FALSE, <<>>, <<>>, {})
     ELSE IF ~sv.ret THEN Done(sv.W, R, FALSE, << e >>, w, {})
     ELSE IF mode = "SERVER"
       THEN Done(sv.W, a.R, TRUE,
                 << e, Request("create", uuid, <<>>, new_account.BALANCE, a.ret) >>,
                 w, {})
     ELSE Done(sv.W, R, TRUE, << e >>, w, {})

create_account(W, R, mode, password, uuid, io, net_ok) ==
  LET new_account == ACCOUNT(uuid, password, U64(0))
      sv == save_account(W, new_account, io, TRUE, TRUE)
      a == api_create_account(R, mode, new_account, net_ok)
      e == LocalEvent("save", uuid, new_account.BALANCE, sv.ret)
      w == << [acc |-> new_account, ret |-> sv.ret] >>
  IN IF Less64(password, U64(MIN_PASSWORD)) \/ Less64(U64(MAX_PASSWORD), password)
       THEN Done(W, R, FALSE, <<>>, <<>>, {})
     ELSE IF ~sv.ret THEN Done(sv.W, R, FALSE, << e >>, w, {})
     ELSE IF mode = "SERVER"
       THEN Done(sv.W, a.R, TRUE,
                 << e, Request("create", uuid, <<>>, new_account.BALANCE, a.ret) >>,
                 w, {})
     ELSE Done(sv.W, R, TRUE, << e >>, w, {})

\* deposit with the request sent before the card file is written
deposit_mirror_first(W, R, mode, order, uuid, password, amount, io, net_ok) ==
  With(list_all_accounts(W, order), LAMBDA l :
  With(load_account(l.W, uuid, TRUE, TRUE, TRUE), LAMBDA r :
  With([r.acc EXCEPT !.BALANCE = Add64(@, amount.cents)], LAMBDA acc :
  With(save_account(r.W, acc, io, TRUE, TRUE), LAMBDA sv :
  With(api_deposit(R, mode, uuid, amount.cents, net_ok), LAMBDA a :
  With(LocalEvent("save", uuid, acc.BALANCE, sv.ret), LAMBDA e :
  With(Request("deposit", uuid, <<>>, amount.cents, a.ret), LAMBDA q :
  With(<< [acc |-> acc, ret |-> sv.ret] >>, LAMBDA w :
    IF l.count = 0 THEN Done(l.W, R, FALSE, <<>>, <<>>, {})
    ELSE IF ~r.ret \/ r.acc.PASSWORD # password \/ ~amount.positive
      THEN Done(r.W, R, FALSE, <<>>, <<>>, {})
    ELSE IF mode = "SERVER" THEN Done(sv.W, a.R, sv.ret, << q, e >>, w, {})
    ELSE Done(sv.W, R, sv.ret, << e >>, w, {})))))))))

\* order: the enumeration list_all_accounts gets; uuid, password, amount:
\* what is typed
deposit(W, R, mode, order, uuid, password, amount, io, net_ok) ==
  With(list_all_accounts(W, order), LAMBDA l :
  With(load_account(l.W, uuid, TRUE, TRUE, TRUE), LAMBDA r :
  With(amount.cents, LAMBDA amount_cents :
  With([r.acc EXCEPT !.BALANCE = Add64(@, amount_cents)], LAMBDA acc :
  With(save_account(r.W, acc, io, TRUE, TRUE), LAMBDA sv :
  With(api_deposit(R, mode, uuid, amount_cents, net_ok), LAMBDA a :
  With(LocalEvent("save", uuid, acc.BALANCE, sv.ret), LAMBDA e :
  With(<< [acc |-> acc, ret |-> sv.ret] >>, LAMBDA w :
    IF l.count = 0 THEN Done(l.W, R, FALSE, <<>>, <<>>, {})
    ELSE IF ~r.ret \/ r.acc.PASSWORD # password \/ ~amount.positive
      THEN Done(r.W, R, FALSE, <<>>, <<>>, {})
    ELSE IF ~sv.ret THEN Done(sv.W, R, FALSE, << e >>, w, {})
    ELSE IF mode = "SERVER"
      THEN Done(sv.W, a.R, TRUE,
                << e, Request("deposit", uuid, <<>>, amount_cents, a.ret) >>, w, {})
    ELSE Done(sv.W, R, TRUE, << e >>, w, {})))))))))

\* withdraw without the comparison of the balance with the amount
withdraw_unchecked(W, R, mode, order, uuid, password, amount, io, net_ok) ==
  With(list_all_accounts(W, order), LAMBDA l :
  With(load_account(l.W, uuid, TRUE, TRUE, TRUE), LAMBDA r :
  With(amount.cents, LAMBDA amount_cents :
  With([r.acc EXCEPT !.BALANCE = Sub64(@, amount_cents)], LAMBDA acc :
  With(save_account(r.W, acc, io, TRUE, TRUE), LAMBDA sv :
  With(api_withdraw(R, mode, uuid, amount_cents, net_ok), LAMBDA a :
  With(LocalEvent("save", uuid, acc.BALANCE, sv.ret), LAMBDA e :
  With(<< [acc |-> acc, ret |-> sv.ret] >>, LAMBDA w :
    IF l.count = 0 THEN Done(l.W, R, FALSE, <<>>, <<>>, {})
    ELSE IF ~r.ret \/ r.acc.PASSWORD # password \/ ~amount.positive
      THEN Done(r.W, R, FALSE, <<>>, <<>>, {})
    ELSE IF ~sv.ret THEN Done(sv.W, R, FALSE, << e >>, w, {})
    ELSE IF mode = "SERVER"
      THEN Done(sv.W, a.R, TRUE,
                << e, Request("withdraw", uuid, <<>>, amount_cents, a.ret) >>, w, {})
    ELSE Done(sv.W, R, TRUE, << e >>, w, {})))))))))

withdraw(W, R, mode, order, uuid, password, amount, io, net_ok) ==
  With(list_all_accounts(W, order), LAMBDA l :
  With(load_account(l.W, uuid, TRUE, TRUE, TRUE), LAMBDA r :
  With(amount.cents, LAMBDA amount_cents :
  With([r.acc EXCEPT !.BALANCE = Sub64(@, amount_cents)], LAMBDA acc :
  With(save_account(r.W, acc, io, TRUE, TRUE), LAMBDA sv :
  With(api_withdraw(R, mode, uuid, amount_cents, net_ok), LAMBDA a :
  With(LocalEvent("save", uuid, acc.BALANCE, sv.ret), LAMBDA e :
  With(<< [acc |-> acc, ret |-> sv.ret] >>, LAMBDA w :
    IF l.count = 0 THEN Done(l.W, R, FALSE, <<>>, <<>>, {})
    ELSE IF ~r.ret \/ r.acc.PASSWORD # password \/ ~amount.positive
      THEN Done(r.W, R, FALSE, <<>>, <<>>, {})
    ELSE IF Less64(r.acc.BALANCE, amount_cents)
      THEN Done(r.W, R, FALSE, <<>>, <<>>, {})
    ELSE IF ~sv.ret THEN Done(sv.W, R, FALSE, << e >>, w, {})
    ELSE IF mode = "SERVER"
      THEN Done(sv.W, a.R, TRUE,
                << e, Request("withdraw", uuid, <<>>, amount_cents, a.ret) >>, w, {})
    ELSE Done(sv.W, R, TRUE, << e >>, w, {})))))))))

\* io_from, io_to: what the two save_account calls meet
\* transfer without the comparison of the password
transfer_unverified(W, R, mode, order, uuid_from, password, uuid_to, amount, io_from, io_to, net_ok) ==
  With(list_all_accounts(W, order), LAMBDA l :
  With(load_account(l.W, uuid_from, TRUE, TRUE, TRUE), LAMBDA rf :
  With(load_account(rf.W, uuid_to, TRUE, TRUE, TRUE), LAMBDA rt :
  With(amount.cents, LAMBDA amount_cents :
  With([rf.acc EXCEPT !.BALANCE = Sub64(@, amount_cents)], LAMBDA acc_from :
  With([rt.acc EXCEPT !.BALANCE = Add64(@, amount_cents)], LAMBDA acc_to :
  With(save_account(rt.W, acc_from, io_from, TRUE, TRUE), LAMBDA sf :
  With(save_account(sf.W, acc_to, io_to, TRUE, TRUE), LAMBDA st :
  With(api_transfer(R, mode, uuid_from, uuid_to, amount_cents, net_ok), LAMBDA a :
  With(LocalEvent("save", uuid_from, acc_from.BALANCE, sf.ret), LAMBDA ef :
  With(LocalEvent("save", uuid_to, acc_to.BALANCE, st.ret), LAMBDA et :
  With([acc |-> acc_from, ret |-> sf.ret], LAMBDA wf :
  With([acc |-> acc_to, ret |-> st.ret], LAMBDA wt :
    IF l.count = 0 THEN Done(l.W, R, FALSE, <<>>, <<>>, {})
    ELSE IF ~rf.ret \/ uuid_from = uuid_to
      THEN Done(rf.W, R, FALSE, <<>>, <<>>, {})
    ELSE IF ~rt.ret \/ ~amount.positive \/ Less64(rf.acc.BALANCE, amount_cents)
      THEN Done(rt.W, R, FALSE, <<>>, <<>>, {})
    ELSE IF ~sf.ret THEN Done(sf.W, R, FALSE, << ef >>, << wf >>, {})
    ELSE IF ~st.ret THEN Done(st.W, R, FALSE, << ef, et >>, << wf, wt >>, {})
    ELSE IF mode = "SERVER"
      THEN Done(st.W, a.R, TRUE,
                << ef, et,
                   Request("transfer", uuid_from, uuid_to, amount_cents, a.ret) >>,
                << wf, wt >>, {})
    ELSE Done(st.W, R, TRUE, << ef, et >>, << wf, wt >>, {}))))))))))))))

\* transfer saving the source as it was when the second save fails
transfer_rollback(W, R, mode, order, uuid_from, password, uuid_to, amount, io_from, io_to, net_ok) ==
  With(list_all_accounts(W, order), LAMBDA l :
  With(load_account(l.W, uuid_from, TRUE, TRUE, TRUE), LAMBDA rf :
  With(load_account(rf.W, uuid_to, TRUE, TRUE, TRUE), LAMBDA rt :
  With(amount.cents, LAMBDA amount_cents :
  With([rf.acc EXCEPT !.BALANCE = Sub64(@, amount_cents)], LAMBDA acc_from :
  With([rt.acc EXCEPT !.BALANCE = Add64(@, amount_cents)], LAMBDA acc_to :
  With(save_account(rt.W, acc_from, io_from, TRUE, TRUE), LAMBDA sf :
  With(save_account(sf.W, acc_to, io_to, TRUE, TRUE), LAMBDA st :
  With(api_transfer(R, mode, uuid_from, uuid_to, amount_cents, net_ok), LAMBDA a :
  With(LocalEvent("save", uuid_from, acc_from.BALANCE, sf.ret), LAMBDA ef :
  With(LocalEvent("save", uuid_to, acc_to.BALANCE, st.ret), LAMBDA et :
  With([acc |-> acc_from, ret |-> sf.ret], LAMBDA wf :
  With([acc |-> acc_to, ret |-> st.ret], LAMBDA wt :
    IF l.count = 0 THEN Done(l.W, R, FALSE, <<>>, <<>>, {})
    ELSE IF ~rf.ret \/ rf.acc.PASSWORD # password \/ uuid_from = uuid_to
      THEN Done(rf.W, R, FALSE, <<>>, <<>>, {})
    ELSE IF ~rt.ret \/ ~amount.positive \/ Less64(rf.acc.BALANCE, amount_cents)
      THEN Done(rt.W, R, FALSE, <<>>, <<>>, {})
    ELSE IF ~sf.ret THEN Done(sf.W, R, FALSE, << ef >>, << wf >>, {})
    ELSE IF ~st.ret
      THEN Done(save_account(st.W, rf.acc, "ok", TRUE, TRUE).W, R, FALSE,
                << ef, et >>, << wf, wt, [acc |-> rf.acc, ret |-> TRUE] >>, {})
    ELSE IF mode = "SERVER"
      THEN Done(st.W, a.R, TRUE,
                << ef, et,
                   Request("transfer", uuid_from, uuid_to, amount_cents, a.ret) >>,
                << wf, wt >>, {})
    ELSE Done(st.W, R, TRUE, << ef, et >>, << wf, wt >>, {}))))))))))))))

\* transfer without acc_to.BALANCE += amount_cents
transfer_debit_only(W, R, mode, order, uuid_from, password, uuid_to, amount, io_from, io_to, net_ok) ==
  With(list_all_accounts(W, order), LAMBDA l :
  With(load_account(l.W, uuid_from, TRUE, TRUE, TRUE), LAMBDA rf :
  With(load_account(rf.W, uuid_to, TRUE, TRUE, TRUE), LAMBDA rt :
  With(amount.cents, LAMBDA amount_cents :
  With([rf.acc EXCEPT !.BALANCE = Sub64(@, amount_cents)], LAMBDA acc_from :
  With(rt.acc, LAMBDA acc_to :
  With(save_account(rt.W, acc_from, io_from, TRUE, TRUE), LAMBDA sf :
  With(save_account(sf.W, acc_to, io_to, TRUE, TRUE), LAMBDA st :
  With(api_transfer(R, mode, uuid_from, uuid_to, amount_cents, net_ok), LAMBDA a :
  With(LocalEvent("save", uuid_from, acc_from.BALANCE, sf.ret), LAMBDA ef :
  With(LocalEvent("save", uuid_to, acc_to.BALANCE, st.ret), LAMBDA et :
  With([acc |-> acc_from, ret |-> sf.ret], LAMBDA wf :
  With([acc |-> acc_to, ret |-> st.ret], LAMBDA wt :
    IF l.count = 0 THEN Done(l.W, R, FALSE, <<>>, <<>>, {})
    ELSE IF ~rf.ret \/ rf.acc.PASSWORD # password \/ uuid_from = uuid_to
      THEN Done(rf.W, R, FALSE, <<>>, <<>>, {})
    ELSE IF ~rt.ret \/ ~amount.positive \/ Less64(rf.acc.BALANCE, amount_cents)
      THEN Done(rt.W, R, FALSE, <<>>, <<>>, {})
    ELSE IF ~sf.ret THEN Done(sf.W, R, FALSE, << ef >>, << wf >>, {})
    ELSE IF ~st.ret THEN Done(st.W, R, FALSE, << ef, et >>, << wf, wt >>, {})
    ELSE IF mode = "SERVER"
      THEN Done(st.W, a.R, TRUE,
                << ef, et,
                   Request("transfer", uuid_from, uuid_to, amount_cents, a.ret) >>,
                << wf, wt >>, {})
    ELSE Done(st.W, R, TRUE, << ef, et >>, << wf, wt >>, {}))))))))))))))

transfer(W, R, mode, order, uuid_from, password, uuid_to, amount, io_from, io_to, net_ok) ==
  With(list_all_accounts(W, order), LAMBDA l :
  With(load_account(l.W, uuid_from, TRUE, TRUE, TRUE), LAMBDA rf :
  With(load_account(rf.W, uuid_to, TRUE, TRUE, TRUE), LAMBDA rt :
  With(amount.cents, LAMBDA amount_cents :
  With([rf.acc EXCEPT !.BALANCE = Sub64(@, amount_cents)], LAMBDA acc_from :
  With([rt.acc EXCEPT !.BALANCE = Add64(@, amount_cents)], LAMBDA acc_to :
  With(save_account(rt.W, acc_from, io_from, TRUE, TRUE), LAMBDA sf :
  With(save_account(sf.W, acc_to, io_to, TRUE, TRUE), LAMBDA st :
  With(api_transfer(R, mode, uuid_from, uuid_to, amount_cents, net_ok), LAMBDA a :
  With(LocalEvent("save", uuid_from, acc_from.BALANCE, sf.ret), LAMBDA ef :
  With(LocalEvent("save", uuid_to, acc_to.BALANCE, st.ret), LAMBDA et :
  With([acc |-> acc_from, ret |-> sf.ret], LAMBDA wf :
  With([acc |-> acc_to, ret |-> st.ret], LAMBDA wt :
    IF l.count = 0 THEN Done(l.W, R, FALSE, <<>>, <<>>, {})
    ELSE IF ~rf.ret \/ rf.acc.PASSWORD # password \/ uuid_from = uuid_to
      THEN Done(rf.W, R, FALSE, <<>>, <<>>, {})
    ELSE IF ~rt.ret \/ ~amount.positive \/ Less64(rf.acc.BALANCE, amount_cents)
      THEN Done(rt.W, R, FALSE, <<>>, <<>>, {})
    ELSE IF ~sf.ret THEN Done(sf.W, R, FALSE, << ef >>, << wf >>, {})
    ELSE IF ~st.ret THEN Done(st.W, R, FALSE, << ef, et >>, << wf, wt >>, {})
    ELSE IF mode = "SERVER"
      THEN Done(st.W, a.R, TRUE,
                << ef, et,
                   Request("transfer", uuid_from, uuid_to, amount_cents, a.ret) >>,
                << wf, wt >>, {})
    ELSE Done(st.W, R, TRUE, << ef, et >>, << wf, wt >>, {}))))))))))))))

\* confirm: "yes" was typed; fs_ok: remove() succeeds
\* delete_account without the test of the balance
delete_account_with_balance(W, R, mode, order, uuid, password, confirm, fs_ok, net_ok) ==
  With(list_all_accounts(W, order), LAMBDA l :
  With(load_account(l.W, uuid, TRUE, TRUE, TRUE), LAMBDA r :
  With(delete_account_file(r.W, uuid, fs_ok), LAMBDA d :
  With(api_delete_account(R, mode, uuid, net_ok), LAMBDA a :
  With(LocalEvent("delete", uuid, U64(0), d.ret), LAMBDA e :
    IF l.count = 0 THEN Done(l.W, R, FALSE, <<>>, <<>>, {})
    ELSE IF ~r.ret \/ r.acc.PASSWORD # password
      THEN Done(r.W, R, FALSE, <<>>, <<>>, {})
    ELSE IF ~confirm
      THEN Done(r.W, R, FALSE, <<>>, <<>>, {})
    ELSE IF ~d.ret THEN Done(d.W, R, FALSE, << e >>, <<>>, {})
    ELSE IF mode = "SERVER"
      THEN Done(d.W, a.R, TRUE,
                << e, Request("delete", uuid, <<>>, U64(0), a.ret) >>, <<>>, {uuid})
    ELSE Done(d.W, R, TRUE, << e >>, <<>>, {uuid}))))))

delete_account(W, R, mode, order, uuid, password, confirm, fs_ok, net_ok) ==
  With(list_all_accounts(W, order), LAMBDA l :
  With(load_account(l.W, uuid, TRUE, TRUE, TRUE), LAMBDA r :
  With(delete_account_file(r.W, uuid, fs_ok), LAMBDA d :
  With(api_delete_account(R, mode, uuid, net_ok), LAMBDA a :
  With(LocalEvent("delete", uuid, U64(0), d.ret), LAMBDA e :
    IF l.count = 0 THEN Done(l.W, R, FALSE, <<>>, <<>>, {})
    ELSE IF ~r.ret \/ r.acc.PASSWORD # password
      THEN Done(r.W, R, FALSE, <<>>, <<>>, {})
    ELSE IF Less64(U64(0), r.acc.BALANCE) \/ ~confirm
      THEN Done(r.W, R, FALSE, <<>>, <<>>, {})
    ELSE IF ~d.ret THEN Done(d.W, R, FALSE, << e >>, <<>>, {})
    ELSE IF mode = "SERVER"
      THEN Done(d.W, a.R, TRUE,
                << e, Request("delete", uuid, <<>>, U64(0), a.ret) >>, <<>>, {uuid})
    ELSE Done(d.W, R, TRUE, << e >>, <<>>, {uuid}))))))

(* ------------------------------ state --------------------------------- *)

VARIABLES
  g_system_key,      \* static unsigned char g_system_key[16]
  g_key_loaded,      \* static bool g_key_loaded
  g_hash_table,      \* g_hash_table together with g_hash_table_initialized
  g_run_mode,        \* static RunMode g_run_mode
  g_api_initialized, \* static bool g_api_initialized
  cardDir,           \* the Card directory exists
  keyFile,           \* system.key: [exists, bytes]
  cards,             \* Card/<uuid>.card for every identifier
  remote,            \* the accounts table of the server
  last,              \* the call that produced this state and what it returned
  saved,             \* per identifier: the account of the last save_account that
                     \* returned true, while no later write or delete touched it
  deleted,           \* per identifier: "cached" / "uncached" since a
                     \* delete_account_file returned true (how the index held it
                     \* before), "no" once it is saved again
  faulted            \* some file, allocation or remote step has been made to fail

vars == << g_system_key, g_key_loaded, g_hash_table, g_run_mode, g_api_initialized,
           cardDir, keyFile, cards, remote, last, saved, deleted, faulted >>

World == [g_system_key |-> g_system_key, g_key_loaded |-> g_key_loaded,
          g_hash_table |-> g_hash_table, cardDir |-> cardDir,
          keyFile |-> keyFile, cards |-> cards]

\* the account globals and the disk become those of W
Becomes(W) ==
  /\ g_system_key' = W.g_system_key
  /\ g_key_loaded' = W.g_key_loaded
  /\ g_hash_table' = W.g_hash_table
  /\ cardDir' = W.cardDir
  /\ keyFile' = W.keyFile
  /\ cards' = W.cards

(* last: op, id, ret, acc (the argument of save, the result of load), hash   *)
(* (how the hash-index step of the call ended: "ok", "failed", "none"), src  *)
(* (where load found the record), count (what push / pull returned), fail    *)
(* (the fail_count a push / pull ended with), saves                          *)
(* (the identifiers pull called save_account for), ok (no file, allocation   *)
(* or remote step of the call was made to fail; for push / pull / main:      *)
(* the fetch, every remote call and every save of the call succeeded),       *)
(* events (the remote requests of a push, a pull or main(); the saves,       *)
(* deletes and remote requests of a business operation, in order).           *)
Call(op, id, ret, acc, hash, src, ok) ==
  [op |-> op, id |-> id, ret |-> ret, acc |-> acc, hash |-> hash, src |-> src,
   count |-> 0, fail |-> 0, saves |-> {}, ok |-> ok, events |-> <<>>]

SyncCall(op, ret, count, saves, ok) ==
  [op |-> op, id |-> <<>>, ret |-> ret, acc |-> NoAccount, hash |-> "none",
   src |-> "none", count |-> count, fail |-> 0, saves |-> saves, ok |-> ok,
   events |-> <<>>]

NotSaved == [valid |-> FALSE, acc |-> NoAccount]

\* the ghosts after the save_account calls recorded in writes
SavedAfter(sv, writes) ==
  [u \in DOMAIN sv |->
     LET done == { k \in DOMAIN writes : writes[k].ret /\ writes[k].acc.UUID = u }
     IN IF done = {} THEN sv[u]
        ELSE [valid |-> TRUE,
              acc |-> writes[CHOOSE k \in done : \A j \in done : j <= k].acc]]

WrittenIds(writes) == { writes[i].acc.UUID : i \in { j \in DOMAIN writes : writes[j].ret } }
CalledIds(writes) == { writes[i].acc.UUID : i \in DOMAIN writes }

Init ==
  /\ g_system_key = ZeroKey
  /\ g_key_loaded = FALSE
  /\ g_hash_table = EmptyTable
  /\ g_run_mode = "UNKNOWN"
  /\ g_api_initialized = FALSE
  /\ cardDir = FALSE
  /\ keyFile = [exists |-> FALSE, bytes |-> ZeroKey]
  /\ cards = [u \in UUIDs |-> NoFile]
  /\ remote = [u \in UUIDs |-> NoRemote]
  /\ last = Call("start", <<>>, TRUE, NoAccount, "none", "none", TRUE)
  /\ saved = [u \in UUIDs |-> NotSaved]
  /\ deleted = [u \in UUIDs |-> "no"]
  /\ faulted = FALSE

(* ------------------------- store operations --------------------------- *)
(* An action binds the result of the call it models with \E r \in { call }, *)
(* so that the call is evaluated once.                                      *)

InitAccountSystem(mkdir_ok, new_key, key_ok, calloc_ok, malloc_ok, dir_ok, order) ==
  \E r \in { init_account_system(World, mkdir_ok, new_key, key_ok, calloc_ok,
                                  malloc_ok, dir_ok, order) } :
     /\ Becomes(r.W)
     /\ last' = Call("init", <<>>, r.ret, NoAccount, "none", "none",
                     mkdir_ok /\ key_ok /\ calloc_ok /\ malloc_ok /\ dir_ok)
     /\ faulted' = (faulted \/ ~last'.ok)
     /\ UNCHANGED << g_run_mode, g_api_initialized, remote, saved, deleted >>

CleanupAccountSystem ==
  /\ Becomes(cleanup_account_system(World))
  /\ last' = Call("cleanup", <<>>, TRUE, NoAccount, "none", "none", TRUE)
  /\ UNCHANGED << g_run_mode, g_api_initialized, remote, saved, deleted, faulted >>

\* the process ends and a new one starts: the statics are as the loader sets
\* them, the disk and the server stay
Restart ==
  /\ Becomes([World EXCEPT !.g_system_key = ZeroKey, !.g_key_loaded = FALSE,
                           !.g_hash_table = EmptyTable])
  /\ g_run_mode' = "UNKNOWN"
  /\ g_api_initialized' = FALSE
  /\ last' = Call("restart", <<>>, TRUE, NoAccount, "none", "none", TRUE)
  /\ UNCHANGED << remote, saved, deleted, faulted >>

SaveAccount(acc, io, calloc_ok, malloc_ok) ==
  \E r \in { save_account(World, acc, io, calloc_ok, malloc_ok) } :
     /\ Becomes(r.W)
     /\ last' = Call("save", acc.UUID, r.ret, acc, r.hash, "none",
                     io = "ok" /\ calloc_ok /\ malloc_ok)
     /\ faulted' = (faulted \/ ~last'.ok)
     /\ saved' = IF r.ret THEN [saved EXCEPT ![acc.UUID] = [valid |-> TRUE, acc |-> acc]]
                 ELSE saved
     /\ deleted' = IF r.ret THEN [deleted EXCEPT ![acc.UUID] = "no"] ELSE deleted
     /\ UNCHANGED << g_run_mode, g_api_initialized, remote >>

LoadAccount(uuid, fs_ok, calloc_ok, malloc_ok) ==
  \E r \in { load_account(World, uuid, fs_ok, calloc_ok, malloc_ok) } :
     /\ Becomes(r.W)
     /\ last' = Call("load", uuid, r.ret, r.acc, r.hash, r.src,
                     fs_ok /\ calloc_ok /\ malloc_ok)
     /\ faulted' = (faulted \/ ~last'.ok)
     /\ UNCHANGED << g_run_mode, g_api_initialized, remote, saved, deleted >>

DeleteAccountFile(uuid, fs_ok) ==
  \E r \in { delete_account_file(World, uuid, fs_ok) } :
   \E was \in { IF hash_find_account(g_hash_table, uuid).found THEN "cached"
                ELSE "uncached" } :
     /\ Becomes(r.W)
     /\ last' = Call("delete", uuid, r.ret, NoAccount, r.hash, "none", fs_ok)
     /\ faulted' = (faulted \/ ~last'.ok)
     /\ saved' = IF r.ret THEN [saved EXCEPT ![uuid] = NotSaved] ELSE saved
     /\ deleted' = IF r.ret THEN [deleted EXCEPT ![uuid] = was] ELSE deleted
     /\ UNCHANGED << g_run_mode, g_api_initialized, remote >>

Next ==
  \/ \E mkdir_ok, key_ok, mem_ok, dir_ok \in BOOLEAN :
       \E new_key \in KEYS : \E order \in Orders(CardFiles(World)) :
         InitAccountSystem(mkdir_ok, new_key, key_ok, mem_ok, mem_ok, dir_ok, order)
  \/ CleanupAccountSystem
  \/ Restart
  \/ \E acc \in Accounts : \E io \in SaveOutcomes : \E mem_ok \in BOOLEAN :
       SaveAccount(acc, io, mem_ok, mem_ok)
  \/ \E uuid \in UUIDs : \E fs_ok, mem_ok \in BOOLEAN :
       LoadAccount(uuid, fs_ok, mem_ok, mem_ok)
  \/ \E uuid \in UUIDs : \E fs_ok \in BOOLEAN : DeleteAccountFile(uuid, fs_ok)

\* the store as a library: its calls in any order, every file and allocation
\* step free to fail
Spec == Init /\ [][Next]_vars

(* -------------------------- the program, sync ------------------------- *)

\* main() has reached ui_loop: init_account_system returned true in this process
Running == g_hash_table.initialized

\* what main() meets on its way to ui_loop: "init_fails" (mkdir, the key file
\* or opendir fail), "curl_fails", "no_config", "offline" (no answer, or a
\* status other than "Support", from /api/check), "server"
BootOutcomes == {"init_fails", "curl_fails", "no_config", "offline", "server"}

\* the failures a pull may meet: the fetch fails, or the card files of the
\* identifiers outside ioOk cannot be opened for writing
PullInputs(R) ==
  { [fetch_ok |-> FALSE, rorder |-> <<>>, ioOk |-> {}] }
    \cup [fetch_ok : {TRUE}, rorder : Orders(RemoteAccounts(R)),
          ioOk : SUBSET RemoteAccounts(R)]

\* the process is at the entry of main()
AtEntry == last.op \in {"start", "restart"}

\* main() up to ui_loop
Main(boot, new_key, order) ==
  \E env_ok \in { boot # "init_fails" } :
  \E i \in { init_account_system(World, env_ok, new_key, env_ok, TRUE, TRUE,
                                 env_ok, order) } :
  \E a \in { init_server_api(g_api_initialized, g_run_mode, boot # "curl_fails",
                             boot # "no_config") } :
  \E status \in { CASE boot = "server" -> "Support"
                     [] boot = "offline" -> "noSupport"
                     [] OTHER -> "" } :
  \E c \in { check_server_availability(a.initialized, a.mode, status) } :
  \E probe \in { IF a.initialized
                   THEN << Request("check", <<>>, <<>>, U64(0), status = "Support") >>
                 ELSE <<>> } :
     /\ AtEntry
     /\ IF ~i.ret
          THEN /\ Becomes(i.W)
               /\ last' = SyncCall("main", FALSE, 0, {}, FALSE)
               /\ faulted' = TRUE
               /\ UNCHANGED << g_run_mode, g_api_initialized, remote, saved, deleted >>
        ELSE IF ~(a.ret /\ c.ret = "SERVER")
          THEN /\ Becomes(i.W)
               /\ g_api_initialized' = a.initialized
               /\ g_run_mode' = IF a.ret THEN c.mode ELSE "LOCAL"
               /\ last' = [SyncCall("main", TRUE, 0, {}, a.ret)
                           EXCEPT !.events = probe]
               /\ faulted' = (faulted \/ ~last'.ok)
               /\ UNCHANGED << remote, saved, deleted >>
        ELSE \E netOk \in SUBSET CardFiles(i.W) :
             \E push \in { sync_all_accounts_to_server(i.W, remote, c.mode, order,
                                                       netOk, TRUE) } :
             \E in \in PullInputs(push.R) :
             \E pull \in { pull_accounts_from_server(push.W, push.R, c.mode,
                                                     in.fetch_ok, in.rorder,
                                                     in.ioOk, TRUE) } :
               /\ Becomes(pull.W)
               /\ g_api_initialized' = a.initialized
               /\ g_run_mode' = c.mode
               /\ remote' = push.R
               /\ last' = [SyncCall("main", TRUE, pull.success,
                            CalledIds(pull.writes),
                            in.fetch_ok /\ push.ok
                              /\ (\A k \in DOMAIN pull.writes : pull.writes[k].ret))
                           EXCEPT !.events = probe \o push.reqs \o pull.reqs]
               /\ faulted' = (faulted \/ ~last'.ok)
               /\ saved' = SavedAfter(saved, pull.writes)
               /\ deleted' = [u \in UUIDs |->
                                IF u \in WrittenIds(pull.writes) THEN "no"
                                ELSE deleted[u]]

PushAccounts(order, netOk, mem_ok) ==
  \E r \in { sync_all_accounts_to_server(World, remote, g_run_mode, order, netOk,
                                          mem_ok) } :
     /\ Becomes(r.W)
     /\ remote' = r.R
     /\ last' = [SyncCall("push", TRUE, r.success, {}, r.ok)
                 EXCEPT !.events = r.reqs, !.fail = r.fail]
     /\ faulted' = (faulted \/ ~r.ok \/ ~mem_ok)
     /\ UNCHANGED << g_run_mode, g_api_initialized, saved, deleted >>

PullAccounts(fetch_ok, rorder, ioOk, mem_ok) ==
  \E r \in { pull_accounts_from_server(World, remote, g_run_mode, fetch_ok, rorder,
                                        ioOk, mem_ok) } :
     /\ Becomes(r.W)
     /\ last' = [SyncCall("pull", TRUE, r.success, CalledIds(r.writes),
                         fetch_ok /\ (\A k \in DOMAIN r.writes : r.writes[k].ret))
                 EXCEPT !.events = r.reqs, !.fail = r.fail]
     /\ faulted' = (faulted \/ ~last'.ok \/ ~mem_ok)
     /\ saved' = SavedAfter(saved, r.writes)
     /\ deleted' = [u \in UUIDs |->
                      IF u \in WrittenIds(r.writes) THEN "no" ELSE deleted[u]]
     /\ UNCHANGED << g_run_mode, g_api_initialized, remote >>

\* another client of the server creates an account or changes a balance
RemoteChange(uuid, balance) ==
  /\ remote' = [remote EXCEPT ![uuid] = [present |-> TRUE, balance |-> balance]]
  /\ last' = Call("remote", uuid, TRUE, NoAccount, "none", "none", TRUE)
  /\ UNCHANGED << g_system_key, g_key_loaded, g_hash_table, g_run_mode,
                  g_api_initialized, cardDir, keyFile, cards, saved, deleted,
                  faulted >>

NextSync ==
  \/ AtEntry /\ \E boot \in BootOutcomes :
       \E new_key \in (IF keyFile.exists THEN {keyFile.bytes} ELSE KEYS) :
         \E order \in Orders(CardFiles(World)) : Main(boot, new_key, order)
  \/ Running /\ \E acc \in Accounts : SaveAccount(acc, "ok", TRUE, TRUE)
  \/ Running /\ \E order \in Orders(CardFiles(World)) :
                  \E netOk \in SUBSET CardFiles(World) : \E mem_ok \in BOOLEAN :
                    PushAccounts(order, netOk, mem_ok)
  \/ Running /\ \E in \in PullInputs(remote) : \E mem_ok \in BOOLEAN :
                  PullAccounts(in.fetch_ok, in.rorder, in.ioOk, mem_ok)
  \/ \E uuid \in UUIDs : \E balance \in BALANCES : RemoteChange(uuid, balance)
  \/ Restart

\* the program as main() runs it: startup reconciliation, then local writes,
\* pushes and pulls while the server's table changes
SpecSync == Init /\ [][NextSync]_vars

(* ----------------------- the program, operations ---------------------- *)

\* balances stay at or below MaxBalance cents, here and on the server
MaxBalance == 500

\* what a call of a business operation meets: the save_account calls that
\* cannot open their file, the remove() or the remote call that fails
NoFault == [io |-> "ok", io_to |-> "ok", fs_ok |-> TRUE, net_ok |-> TRUE]
SaveFaults ==
  { NoFault, [NoFault EXCEPT !.io = "open_fails"], [NoFault EXCEPT !.net_ok = FALSE] }
TransferFaults == SaveFaults \cup { [NoFault EXCEPT !.io_to = "open_fails"] }
DeleteFaults ==
  { NoFault, [NoFault EXCEPT !.fs_ok = FALSE], [NoFault EXCEPT !.net_ok = FALSE] }

\* what is typed at the prompts: a wrong password, an amount that is not
\* positive, "no" at the confirmation, or the password create_account was
\* given with an amount of 500 cents
Entry(password, positive, cents, confirm) ==
  [password |-> password, amount |-> [positive |-> positive, cents |-> U64(cents)],
   confirm |-> confirm]
Typed ==
  { Entry(U64(7654321), TRUE, 500, TRUE), Entry(U64(1234688), FALSE, 0, TRUE),
    Entry(U64(1234688), TRUE, 500, FALSE), Entry(U64(1234688), TRUE, 500, TRUE) }
NEW_PASSWORDS == { U64(1234688), U64(999999) }

\* the calls tried: every fault with the entry that gets as far as the save
\* or the remove, the other entries without faults
Tries(faults) ==
  { t \in [in : Typed, f : faults] :
      t.f # NoFault => t.in = Entry(U64(1234688), TRUE, 500, TRUE) }

\* the enumeration of the Card directory a business operation gets
DirOrder == CHOOSE o \in Orders(CardFiles(World)) : TRUE

\* the identifiers generate_uuid_string may give: those nothing holds yet
FreshIds ==
  { u \in UUIDs : /\ ~cards[u].exists
                  /\ ~remote[u].present
                  /\ ~hash_find_account(g_hash_table, u).found }

WithinBound(r) ==
  /\ \A u \in UUIDs : ~Less64(U64(MaxBalance), r.R[u].balance)
  /\ \A k \in DOMAIN r.writes : ~Less64(U64(MaxBalance), r.writes[k].acc.BALANCE)

\* the state after the business operation op gave r
Business(op, id, r, ok) ==
  /\ WithinBound(r)
  /\ Becomes(r.W)
  /\ remote' = r.R
  /\ last' = [Call(op, id, r.ret, NoAccount, "none", "none", ok)
              EXCEPT !.events = r.events]
  /\ faulted' = (faulted \/ ~ok)
  /\ saved' = [u \in UUIDs |-> IF u \in r.removed THEN NotSaved
                               ELSE SavedAfter(saved, r.writes)[u]]
  /\ deleted' = [u \in UUIDs |-> IF u \in r.removed THEN "cached"
                                 ELSE IF u \in WrittenIds(r.writes) THEN "no"
                                 ELSE deleted[u]]
  /\ UNCHANGED << g_run_mode, g_api_initialized >>

CreateAccount(password, uuid, io, net_ok) ==
  \E r \in { create_account(World, remote, g_run_mode, password, uuid, io, net_ok) } :
     Business("create_account", uuid, r, io = "ok" /\ net_ok)

Deposit(order, uuid, password, amount, io, net_ok) ==
  \E r \in { deposit(World, remote, g_run_mode, order, uuid, password, amount, io,
                     net_ok) } :
     Business("deposit", uuid, r, io = "ok" /\ net_ok)

Withdraw(order, uuid, password, amount, io, net_ok) ==
  \E r \in { withdraw(World, remote, g_run_mode, order, uuid, password, amount, io,
                      net_ok) } :
     Business("withdraw", uuid, r, io = "ok" /\ net_ok)

Transfer(order, uuid_from, password, uuid_to, amount, io_from, io_to, net_ok) ==
  \E r \in { transfer(World, remote, g_run_mode, order, uuid_from, password,
                      uuid_to, amount, io_from, io_to, net_ok) } :
     Business("transfer", uuid_from, r, io_from = "ok" /\ io_to = "ok" /\ net_ok)

DeleteAccount(order, uuid, password, confirm, fs_ok, net_ok) ==
  \E r \in { delete_account(World, remote, g_run_mode, order, uuid, password,
                            confirm, fs_ok, net_ok) } :
     Business("delete_account", uuid, r, fs_ok /\ net_ok)

NextOps ==
  \/ AtEntry /\ \E boot \in BootOutcomes :
       \E new_key \in (IF keyFile.exists THEN {keyFile.bytes} ELSE KEYS) :
         \E order \in Orders(CardFiles(World)) : Main(boot, new_key, order)
  \/ Running /\ \E password \in NEW_PASSWORDS : \E uuid \in FreshIds :
                  \E f \in SaveFaults :
                    CreateAccount(password, uuid, f.io, f.net_ok)
  \/ Running /\ \E uuid \in UUIDs : \E t \in Tries(SaveFaults) :
                  Deposit(DirOrder, uuid, t.in.password, t.in.amount, t.f.io,
                          t.f.net_ok)
  \/ Running /\ \E uuid \in UUIDs : \E t \in Tries(SaveFaults) :
                  Withdraw(DirOrder, uuid, t.in.password, t.in.amount, t.f.io,
                           t.f.net_ok)
  \/ Running /\ \E uuid_from, uuid_to \in UUIDs : \E t \in Tries(TransferFaults) :
                  Transfer(DirOrder, uuid_from, t.in.password, uuid_to, t.in.amount,
                           t.f.io, t.f.io_to, t.f.net_ok)
  \/ Running /\ \E uuid \in UUIDs : \E t \in Tries(DeleteFaults) :
                  DeleteAccount(DirOrder, uuid, t.in.password, t.in.confirm,
                                t.f.fs_ok, t.f.net_ok)
  \/ Running /\ \E order \in Orders(CardFiles(World)) :
                  PushAccounts(order, CardFiles(World), TRUE)
  \/ Running /\ \E rorder \in Orders(RemoteAccounts(remote)) :
                  PullAccounts(TRUE, rorder, RemoteAccounts(remote), TRUE)

\* one run of the program: main(), then the menu's operations and the two
\* exported syncs in any order, every save, remove and remote call of an
\* operation free to fail
SpecOps == Init /\ [][NextOps]_vars

(* ---------------------- the program, many accounts -------------------- *)
(* main() after check_server_availability returned MODE_SERVER, on a store   *)
(* and a server that hold up to MaxFiles accounts each.                     *)

MaxFiles == 101

\* two-byte identifiers
ManyId(i) == << 65 + (i % 16), 65 + (i \div 16) >>
ManyIds == { ManyId(i) : i \in 1..MaxFiles }

\* the members of S in the order of their numbers: one enumeration of a
\* directory or of the server's table
Enumeration(S) == SelectSeq([i \in 1..MaxFiles |-> ManyId(i)], LAMBDA u : u \in S)

\* the store of a system that saved the accounts 1..n under KeyA and was
\* restarted, and the table of a server that holds the accounts 1..m
ManyStore(n) ==
  LET W0 == [g_system_key |-> ZeroKey, g_key_loaded |-> FALSE,
             g_hash_table |-> EmptyTable, cardDir |-> TRUE,
             keyFile |-> [exists |-> TRUE, bytes |-> KeyA],
             cards |-> [u \in ManyIds |-> NoFile]]
  IN [W0 EXCEPT !.cards =
        [u \in ManyIds |->
           IF \E i \in 1..n : u = ManyId(i)
             THEN StoredCard(W0, ACCOUNT(u, U64(1234688), U64(500)))
           ELSE NoFile]]
ManyRemote(m) ==
  [u \in ManyIds |-> IF \E i \in 1..m : u = ManyId(i)
                       THEN [present |-> TRUE, balance |-> U64(900)]
                     ELSE NoRemote]

InitMany ==
  \E n \in {MaxFiles - 1, MaxFiles} : \E m \in {0, MaxFiles - 1, MaxFiles} :
  \E i \in { init_account_system(ManyStore(n), TRUE, KeyA, TRUE, TRUE, TRUE, TRUE,
                                 Enumeration(CardFiles(ManyStore(n)))) } :
     /\ g_system_key = i.W.g_system_key
     /\ g_key_loaded = i.W.g_key_loaded
     /\ g_hash_table = i.W.g_hash_table
     /\ cardDir = i.W.cardDir
     /\ keyFile = i.W.keyFile
     /\ cards = i.W.cards
     /\ g_run_mode = "SERVER"
     /\ g_api_initialized = TRUE
     /\ remote = ManyRemote(m)
     /\ last = [SyncCall("main", TRUE, 0, {}, TRUE)
                EXCEPT !.events = << Request("check", <<>>, <<>>, U64(0), TRUE) >>]
     /\ saved = [u \in ManyIds |-> NotSaved]
     /\ deleted = [u \in UUIDs |-> "no"]
     /\ faulted = FALSE

\* the failures tried: none, or the request / save of one of two accounts
FailOne == { {}, {ManyId(1)}, {ManyId(2)} }

\* the push and the pull of main(), with at most one request or save failing
NextMany ==
  \/ \E bad \in FailOne :
       PushAccounts(Enumeration(CardFiles(World)), CardFiles(World) \ bad, TRUE)
  \/ \E fetch_ok \in BOOLEAN : \E bad \in FailOne :
       PullAccounts(fetch_ok, Enumeration(RemoteAccounts(remote)),
                    RemoteAccounts(remote) \ bad, TRUE)

SpecMany == InitMany /\ [][NextMany]_vars

(* ------------------------- the index on its own ----------------------- *)
(* The hash index as account.h exports it: hash_insert_account and        *)
(* hash_update_account called on an initialized table, past the load      *)
(* factor that makes it resize.                                            *)

\* identifiers number 1..MaxEntries; 0.75 * 16 = 12 entries make the next
\* insertion resize the table
MaxEntries == 14

\* identifiers whose hashes differ by multiples of 4: they fill 4 of the 16
\* buckets with chains, which the resize splits over 8 of the 32
HashId(i) == << 65 + 4 * i, 65 >>
HashIds == { HashId(i) : i \in 1..MaxEntries }

\* the identifiers whose account is passed again with another balance
Repeated == { HashId(1), HashId(MaxEntries - 1) }

\* the identifiers passed next: the identifiers come in rising or in falling
\* order of their numbers, and a repeated one comes again once it is in
Absent(ht) == { i \in 1..MaxEntries : ~hash_find_account(ht, HashId(i)).found }
NextIds(ht) ==
  { HashId(i) : i \in { j \in Absent(ht) :
       \/ (\A k \in Absent(ht) : j <= k) /\ (1 \notin Absent(ht) \/ MaxEntries \in Absent(ht))
       \/ (\A k \in Absent(ht) : j >= k) /\ (MaxEntries \notin Absent(ht) \/ 1 \in Absent(ht)) } }
    \cup { u \in Repeated : hash_find_account(ht, u).found }
NextAccounts(ht) ==
  { ACCOUNT(u, U64(1234688), U64(500)) : u \in NextIds(ht) }
    \cup { ACCOUNT(u, U64(1234688), U64(900)) : u \in NextIds(ht) \cap Repeated }

\* the allocations of a call: all succeed, calloc fails, or malloc fails
Allocations == { << TRUE, TRUE >>, << FALSE, TRUE >>, << TRUE, FALSE >> }

\* how the table held acc.UUID before the call: with another balance, with
\* the same one, or not at all
HeldAs(ht, acc) ==
  LET f == hash_find_account(ht, acc.UUID)
  IN IF ~f.found THEN "absent"
     ELSE IF f.account.BALANCE # acc.BALANCE THEN "differs" ELSE "same"

InitHash ==
  /\ g_system_key = ZeroKey
  /\ g_key_loaded = FALSE
  /\ g_hash_table = init_account_hash_table(EmptyTable, TRUE).ht
  /\ g_run_mode = "UNKNOWN"
  /\ g_api_initialized = FALSE
  /\ cardDir = FALSE
  /\ keyFile = [exists |-> FALSE, bytes |-> ZeroKey]
  /\ cards = [u \in UUIDs |-> NoFile]
  /\ remote = [u \in UUIDs |-> NoRemote]
  /\ last = Call("init_hash", <<>>, TRUE, NoAccount, "none", "none", TRUE)
  /\ saved = [u \in HashIds |-> NotSaved]
  /\ deleted = [u \in UUIDs |-> "no"]
  /\ faulted = FALSE

\* a call of the index: last.src tells how the table held the identifier
\* before, saved[u] is the account of the last call for u that returned true
Indexed(op, acc, r, ok) ==
  /\ g_hash_table' = r.ht
  /\ last' = Call(op, acc.UUID, r.ret, acc, "none", HeldAs(g_hash_table, acc), ok)
  /\ saved' = IF r.ret THEN [saved EXCEPT ![acc.UUID] = [valid |-> TRUE, acc |-> acc]]
              ELSE saved
  /\ faulted' = (faulted \/ ~ok)
  /\ UNCHANGED << g_system_key, g_key_loaded, g_run_mode, g_api_initialized,
                  cardDir, keyFile, cards, remote, deleted >>

HashInsertAccount(acc, calloc_ok, malloc_ok) ==
  \E r \in { hash_insert_account(g_hash_table, acc, calloc_ok, malloc_ok) } :
     Indexed("hash_insert", acc, r, calloc_ok /\ malloc_ok)

HashUpdateAccount(acc, calloc_ok, malloc_ok) ==
  \E r \in { hash_update_account(g_hash_table, acc, calloc_ok, malloc_ok) } :
     Indexed("hash_update", acc, r, calloc_ok /\ malloc_ok)

HashDeleteAccount(uuid) ==
  \E r \in { hash_delete_account(g_hash_table, uuid) } :
     /\ g_hash_table' = r.ht
     /\ last' = Call("hash_delete", uuid, r.ret, NoAccount, "none",
                     IF hash_find_account(g_hash_table, uuid).found
                       THEN "present" ELSE "absent", TRUE)
     /\ saved' = IF r.ret THEN [saved EXCEPT ![uuid] = NotSaved] ELSE saved
     /\ UNCHANGED << g_system_key, g_key_loaded, g_run_mode, g_api_initialized,
                     cardDir, keyFile, cards, remote, deleted, faulted >>

NextHash ==
  \/ \E acc \in NextAccounts(g_hash_table) : \E a \in Allocations :
       HashInsertAccount(acc, a[1], a[2])
  \/ \E acc \in NextAccounts(g_hash_table) : \E a \in Allocations :
       HashUpdateAccount(acc, a[1], a[2])
  \/ \E uuid \in Repeated : HashDeleteAccount(uuid)

SpecHash == InitHash /\ [][NextHash]_vars

(* ------------------------- the nodes of the index --------------------- *)
(* The index with the place of every node in memory: the account passed to *)
(* a call carries, in the field node, the address malloc returns if the    *)
(* call allocates a node; hash_find_account returns the node it found, so  *)
(* that the field node of its result is the pointer the caller gets.       *)

\* the addresses of the nodes linked in the table
NodesOf(ht) ==
  LET nodes == Concat(ht.buckets, 1) IN { nodes[k].node : k \in 1..Len(nodes) }

\* what malloc returns: the lowest free address, so that the address of a
\* freed node is the next one given out
Malloc(ht) ==
  LET free == (1..(MaxEntries + 1)) \ NodesOf(ht)
  IN { a \in free : \A b \in free : a <= b }

\* acc as passed to a call whose malloc returns addr
NodeFor(acc, addr) ==
  [UUID |-> acc.UUID, PASSWORD |-> acc.PASSWORD, BALANCE |-> acc.BALANCE, node |-> addr]

\* the accounts passed next when the identifiers come in rising order
RisingAccounts(ht) ==
  { acc \in NextAccounts(ht) :
      \A i \in Absent(ht) : acc.UUID = HashId(i) => \A k \in Absent(ht) : i <= k }

NextNodes ==
  \/ \E acc \in RisingAccounts(g_hash_table) : \E addr \in Malloc(g_hash_table) :
       \E a \in Allocations : HashInsertAccount(NodeFor(acc, addr), a[1], a[2])
  \/ \E acc \in RisingAccounts(g_hash_table) : \E addr \in Malloc(g_hash_table) :
       HashUpdateAccount(NodeFor(acc, addr), TRUE, TRUE)
  \/ \E uuid \in Repeated : HashDeleteAccount(uuid)

SpecNodes == InitHash /\ [][NextNodes]_vars

(* ------------------------- the cipher on its own ---------------------- *)
(* xor_encrypt_decrypt applied again and again to one buffer under the    *)
(* loaded key; last.events holds the buffer as passed and after each call *)

\* buffers of 0..MaxLen bytes: shorter than, as long as and longer than the key
MaxLen == 18
Buffer(len, seed) == [i \in 1..len |-> (seed * (37 * i + 11)) % 256]

InitCipher ==
  \E key \in KEYS : \E len \in 0..MaxLen : \E seed \in {0, 1, 7} :
     /\ g_system_key = key
     /\ g_key_loaded = TRUE
     /\ g_hash_table = init_account_hash_table(EmptyTable, TRUE).ht
     /\ g_run_mode = "UNKNOWN"
     /\ g_api_initialized = FALSE
     /\ cardDir = TRUE
     /\ keyFile = [exists |-> TRUE, bytes |-> key]
     /\ cards = [u \in UUIDs |-> NoFile]
     /\ remote = [u \in UUIDs |-> NoRemote]
     /\ last = [Call("init", <<>>, TRUE, NoAccount, "none", "none", TRUE)
                EXCEPT !.events = << Buffer(len, seed) >>]
     /\ saved = [u \in UUIDs |-> NotSaved]
     /\ deleted = [u \in UUIDs |-> "no"]
     /\ faulted = FALSE

\* one call on the buffer the last call left, up to three in a row
XorEncryptDecrypt ==
  /\ Len(last.events) <= 3
  /\ last' = [Call("xor", <<>>, TRUE, NoAccount, "none", "none", TRUE)
              EXCEPT !.events =
                Append(last.events,
                       xor_encrypt_decrypt(last.events[Len(last.events)],
                                           g_key_loaded, g_system_key))]
  /\ UNCHANGED << g_system_key, g_key_loaded, g_hash_table, g_run_mode,
                  g_api_initialized, cardDir, keyFile, cards, remote, saved,
                  deleted, faulted >>

SpecCipher == InitCipher /\ [][XorEncryptDecrypt]_vars

(* ------------------------- the server's Transfer ---------------------- *)
(* models.Transfer of the Go server on the accounts table remote.  A call   *)
(* is one step; fail names the database call that returns an error.        *)
(* events lists the calls made on the transaction, in order, the deferred  *)
(* function's tx.Rollback() included.                                      *)

\* balances of the server's table stay at or below MaxServerBalance
MaxServerBalance == 2000

\* the database call of Transfer that fails, if any
TransferFailures ==
  { "none", "Begin", "QueryRow from", "QueryRow to", "Exec from", "Exec to", "Commit" }

\* the amounts of the transfer requests
TransferAmounts == { U64(400), U64(1000) }

\* a call made on the transaction
TxCall(kind, ok) == [kind |-> kind, ok |-> ok]

\* err is the variable the deferred function reads when Transfer returns:
\* the error of the last database call, nil after one that succeeded
ModelsTransfer(R, uuidFrom, uuidTo, amount, fail) ==
  LET begin == << TxCall("Begin", TRUE) >>
      from == Append(begin, TxCall("QueryRow", fail # "QueryRow from" /\ R[uuidFrom].present))
      to == Append(from, TxCall("QueryRow", fail # "QueryRow to" /\ R[uuidTo].present))
      debit == Append(to, TxCall("Exec", fail # "Exec from"))
      credit == Append(debit, TxCall("Exec", fail # "Exec to"))
      commit == Append(credit, TxCall("Commit", fail # "Commit"))
      debited == [R EXCEPT ![uuidFrom].balance = Sub64(@, amount)]
      credited == [debited EXCEPT ![uuidTo].balance = Add64(@, amount)]
      Returns(ret, table, events, err) ==
        [R |-> table, ret |-> ret,
         events |-> IF err THEN Append(events, TxCall("Rollback", events[Len(events)].kind # "Commit"))
                    ELSE events]
  IN IF fail = "Begin" THEN [R |-> R, ret |-> FALSE, events |-> <<>>]
     ELSE IF ~from[2].ok THEN Returns(FALSE, R, from, TRUE)
     ELSE IF Less64(R[uuidFrom].balance, amount) THEN Returns(FALSE, R, from, FALSE)
     ELSE IF ~to[3].ok THEN Returns(FALSE, R, to, TRUE)
     ELSE IF ~debit[4].ok THEN Returns(FALSE, R, debit, TRUE)
     ELSE IF ~credit[5].ok THEN Returns(FALSE, R, credit, TRUE)
     ELSE IF ~commit[6].ok THEN Returns(FALSE, R, commit, TRUE)
     ELSE Returns(TRUE, credited, commit, FALSE)

ServerTransfer(uuidFrom, uuidTo, amount, fail) ==
  \E r \in { ModelsTransfer(remote, uuidFrom, uuidTo, amount, fail) } :
     /\ uuidFrom # uuidTo
     /\ \A u \in UUIDs : ~Less64(U64(MaxServerBalance), r.R[u].balance)
     /\ remote' = r.R
     /\ last' = [Call("Transfer", uuidFrom, r.ret, NoAccount, "none", "none",
                      fail = "none")
                 EXCEPT !.events = r.events]
     /\ faulted' = (faulted \/ fail # "none")
     /\ UNCHANGED << g_system_key, g_key_loaded, g_hash_table, g_run_mode,
                     g_api_initialized, cardDir, keyFile, cards, saved, deleted >>

NextServer ==
  \/ \E uuid \in UUIDs : \E balance \in BALANCES : RemoteChange(uuid, balance)
  \/ \E uuidFrom, uuidTo \in UUIDs : \E amount \in TransferAmounts :
       \E fail \in TransferFailures : ServerTransfer(uuidFrom, uuidTo, amount, fail)

\* the server's table under sync requests and transfers, every database call
\* of a transfer free to fail
SpecServer == Init /\ [][NextServer]_vars

(* ------------------------------ claims -------------------------------- *)

\* the 16 bytes save_account writes after the identifier line for acc, under
\* the key now loaded
BlockOf(acc) ==
  xor_encrypt_decrypt(acc.PASSWORD \o acc.BALANCE, g_key_loaded, g_system_key)

\* the card file a complete save_account(acc) leaves
CardOf(acc) == [exists |-> TRUE, line |-> acc.UUID, block |-> BlockOf(acc)]

\* C1 -- round trip: a load_account of an identifier whose last successful
\* save_account stored a, with no write or delete since, returns true with the
\* identifier, password and balance of a.  Stated here for the loads around
\* which nothing goes wrong: no file or allocation step has failed, the store
\* is initialised, the key is loaded and the card file holds exactly what the
\* save wrote.
C1_RoundTrip ==
  (/\ last.op = "load"
   /\ ~faulted
   /\ g_hash_table.initialized
   /\ saved[last.id].valid
   /\ g_key_loaded
   /\ cards[last.id] = CardOf(saved[last.id].acc))
  => (last.ret /\ last.acc = saved[last.id].acc)

\* C2 -- delete then load fails: a load_account of an identifier whose file a
\* delete_account_file removed (returning true), and that no save_account
\* wrote again since, returns false, whether the index held it or not.
C2_DeleteThenLoadFails ==
  (last.op = "load" /\ deleted[last.id] # "no") => ~last.ret

\* a load that failed on an identifier deleted while the index held it
C2_Witness ==
  last.op = "load" /\ last.ok /\ deleted[last.id] = "cached" /\ ~last.ret

\* C3 -- cache coherence: the load_account that follows a save_account(a)
\* which returned true returns a, from the hash index and not from the file
\* (so also when the file cannot be opened any more).
C3_CacheCoherence ==
  [][(last.op = "save" /\ last.ret /\ last'.op = "load" /\ last'.id = last.id)
       => (last'.ret /\ last'.acc = last.acc /\ last'.src = "cache")]_vars

\* C4 -- a save_account that returns false (the account file could not be
\* opened for writing) leaves the hash index as it was: same count, same
\* bucket count, same entries.
C4_FailedSaveLeavesIndex ==
  [][(last'.op = "save" /\ ~last'.ret) => g_hash_table' = g_hash_table]_vars

\* a save that failed while the index held another value for its identifier
C4_Witness ==
  /\ last.op = "save" /\ ~last.ret
  /\ hash_find_account(g_hash_table, last.id).found
  /\ hash_find_account(g_hash_table, last.id).account # last.acc

\* C5 -- a delete_account_file that cannot remove the file returns false and
\* leaves the index (and the file) as they were; one that returns true leaves
\* neither the file nor an index entry for the identifier.
C5_DeleteKeepsOrDropsBoth ==
  [][last'.op = "delete" =>
       /\ ~last'.ok => ~last'.ret
       /\ ~last'.ret => (g_hash_table' = g_hash_table /\ cards' = cards)
       /\ last'.ret => /\ ~cards'[last'.id].exists
                       /\ ~hash_find_account(g_hash_table', last'.id).found]_vars

\* a delete that failed on an existing file whose account the index holds
C5_Witness ==
  /\ last.op = "delete" /\ ~last.ok /\ ~last.ret
  /\ cards[last.id].exists
  /\ hash_find_account(g_hash_table, last.id).found

\* C6 -- read through: a load_account of an identifier the index does not
\* hold leaves the loaded record in the index when it returns true, and leaves
\* the index unchanged when it returns false.
C6_LoadReadsThrough ==
  [][(last'.op = "load" /\ ~hash_find_account(g_hash_table, last'.id).found) =>
       IF last'.ret
         THEN hash_find_account(g_hash_table', last'.id)
                = [found |-> TRUE, account |-> last'.acc]
       ELSE g_hash_table' = g_hash_table]_vars

\* C7 -- hash index errors are reported: a save_account, load_account or
\* delete_account_file whose hash-index step failed (table not initialised,
\* allocation failure) returns false.
C7_HashErrorsReported == last.hash = "failed" => ~last.ret

\* C8 -- key prerequisite: while the key is not loaded, save_account returns
\* false and load_account returns no record from a file.
C8_KeyPrerequisite ==
  (last.op \in {"save", "load"} /\ last.src # "cache" /\ ~g_key_loaded) => ~last.ret

\* C9 -- startup reconciliation: when main() has pushed and pulled in Server
\* mode and every remote call and every save succeeded, the server holds every
\* account the local store held, with the local balance; those accounts' files
\* are unchanged; and every account only the server held has a card file with
\* the server's balance and password 0.
C9_StartupReconciliation ==
  [][(last'.op = "main" /\ last'.ret /\ g_run_mode' = "SERVER" /\ last'.ok) =>
       \A u \in UUIDs :
         /\ saved[u].valid =>
              /\ remote'[u] = [present |-> TRUE, balance |-> saved[u].acc.BALANCE]
              /\ cards'[u] = cards[u]
         /\ (~cards[u].exists /\ remote[u].present) =>
              cards'[u] = [exists |-> TRUE, line |-> u,
                           block |-> xor_encrypt_decrypt(U64(0) \o remote[u].balance,
                                                         g_key_loaded', g_system_key')]]_vars

\* C10 -- pull idempotence: a pull_accounts_from_server that directly follows
\* one whose fetch and saves all succeeded (the server's table unchanged in
\* between) calls save_account for no account and leaves every card file as
\* it was.
C10_PullIdempotence ==
  [][(last.op = "pull" /\ last.ok /\ last'.op = "pull")
       => (last'.saves = {} /\ cards' = cards)]_vars

\* C11 -- pull frame: a pull_accounts_from_server (alone or as the pull of
\* main()) removes no card file, and leaves the card file and the index entry
\* of every identifier that the server's table does not hold as they were.
C11_PullFrame ==
  [][last'.op = "pull" =>
       \A u \in UUIDs :
         /\ cards[u].exists => cards'[u].exists
         /\ ~remote[u].present =>
              /\ cards'[u] = cards[u]
              /\ hash_find_account(g_hash_table', u)
                   = hash_find_account(g_hash_table, u)]_vars

\* a pull that saved an account while the local store held an account the
\* server does not
C11_Witness ==
  /\ last.op = "pull" /\ last.saves # {}
  /\ \E u \in UUIDs : cards[u].exists /\ ~remote[u].present

\* C12 -- passwords are kept: a pull (alone or as the pull of main()) leaves
\* every account the local store held before it with the password it had.
\* Stated for the runs in which no file, allocation or remote step has failed.
C12_PasswordKept ==
  [][(last'.op \in {"pull", "main"} /\ ~faulted') =>
       \A u \in UUIDs :
         saved[u].valid =>
           /\ saved'[u].valid
           /\ saved'[u].acc.PASSWORD = saved[u].acc.PASSWORD]_vars

\* the five mutating operations of the menu and the request each mirrors to
BusinessOps == {"create_account", "deposit", "withdraw", "transfer", "delete_account"}
ApiOf(op) ==
  CASE op = "create_account" -> "create"
    [] op = "delete_account" -> "delete"
    [] OTHER -> op

\* C13 -- per-operation mirroring in Server mode: a create_account, deposit,
\* withdraw, transfer or delete_account whose local saves / delete all
\* succeeded returns true and sends exactly one request, the matching one, as
\* its last step; it returns true also when that request fails, and what it
\* saved or deleted stays in the card files and the index; an operation that
\* returns false (its local step failed or it was rejected) sends no request.
C13_Mirroring ==
  [][(last'.op \in BusinessOps /\ g_run_mode = "SERVER") =>
       LET ev == last'.events
           n == Len(ev)
           reqs == { k \in 1..n : ev[k].kind = "request" }
           locals == { k \in 1..n : ev[k].kind # "request" }
       IN /\ (locals # {} /\ \A k \in locals : ev[k].ok) => last'.ret
          /\ last'.ret =>
               /\ reqs = {n} /\ locals # {}
               /\ \A k \in locals : ev[k].ok
               /\ ev[n].api = ApiOf(last'.op) /\ ev[n].uuid = last'.id
               /\ \A k \in locals :
                    LET found == hash_find_account(g_hash_table', ev[k].uuid)
                    IN IF ev[k].kind = "save"
                         THEN /\ cards'[ev[k].uuid].exists
                              /\ found.found
                              /\ found.account.BALANCE = ev[k].amount
                       ELSE ~cards'[ev[k].uuid].exists /\ ~found.found
          /\ ~last'.ret => reqs = {}]_vars

\* a transfer in Server mode that saved both accounts and whose request failed
C13_Witness ==
  /\ last.op = "transfer" /\ g_run_mode = "SERVER" /\ last.ret
  /\ Len(last.events) = 3
  /\ last.events[3].api = "transfer" /\ ~last.events[3].ok

\* C14 -- push is best effort: a sync_all_accounts_to_server in Server mode
\* goes through every enumerated account whatever fails on the way: the
\* success and failure counts add up to the number of enumerated accounts,
\* every account that loads is sent to the server, and the call returns the
\* number of requests that succeeded.
C14_PushBestEffort ==
  [][(last'.op = "push" /\ g_run_mode = "SERVER") =>
       /\ last'.count + last'.fail
            = Min(Cardinality(CardFiles(World)), MAX_SYNC_ACCOUNTS)
       /\ \A u \in CardFiles(World) :
            load_account(World, u, TRUE, TRUE, TRUE).ret
              => \E k \in DOMAIN last'.events : last'.events[k].uuid = u
       /\ last'.count
            = Cardinality({ k \in DOMAIN last'.events : last'.events[k].ok })]_vars

\* a push whose first request failed and whose second succeeded
C14_Witness ==
  /\ last.op = "push" /\ Len(last.events) = 2
  /\ ~last.events[1].ok /\ last.events[2].ok
  /\ last.count = 1 /\ last.fail = 1

\* C16 -- the run mode is decided by the startup probe: when main() reaches the
\* menu the mode is Server if /api/check answered "Support" and Local
\* otherwise, and no later call (business operation, push, pull), whatever
\* remote failure it meets, changes it while the process runs.
C16_ModeDecidedAtStartup ==
  [][ /\ (last'.op = "main" /\ last'.ret) =>
           /\ g_run_mode' \in {"SERVER", "LOCAL"}
           /\ (g_run_mode' = "SERVER")
                <=> (\E k \in DOMAIN last'.events :
                       last'.events[k].api = "check" /\ last'.events[k].ok)
      /\ (last'.op \notin {"main", "restart"}) => g_run_mode' = g_run_mode ]_vars

\* a business operation in Server mode whose remote call failed
C16_Witness ==
  /\ last.op \in {"create_account", "deposit", "withdraw", "transfer", "delete_account"}
  /\ g_run_mode = "SERVER"
  /\ \E k \in DOMAIN last.events :
       last.events[k].kind = "request" /\ ~last.events[k].ok

\* C17 -- outside Server mode nothing goes to the server: a
\* sync_all_accounts_to_server or pull_accounts_from_server returns 0, sends
\* no request and writes neither a card file nor the index, and no
\* create_account, deposit, withdraw, transfer or delete_account sends a
\* request; the server's table is as it was.
C17_LocalModeSendsNothing ==
  [][g_run_mode # "SERVER" =>
       /\ last'.op \in {"push", "pull"} =>
            /\ last'.count = 0 /\ last'.events = <<>> /\ last'.saves = {}
            /\ cards' = cards /\ g_hash_table' = g_hash_table
            /\ remote' = remote
       /\ last'.op \in BusinessOps =>
            /\ \A k \in DOMAIN last'.events : last'.events[k].kind # "request"
            /\ remote' = remote]_vars

\* in Local mode with accounts in the store: an operation that saved, or a
\* push
C17_Witness ==
  /\ g_run_mode = "LOCAL" /\ CardFiles(World) # {}
  /\ \/ last.op \in BusinessOps /\ last.ret
     \/ last.op = "push"

\* the store holds account u as its last save left it
Stored(W, u) ==
  /\ saved[u].valid /\ W.keyFile.exists
  /\ W.cards[u] = StoredCard(W, saved[u].acc)
  /\ LET f == hash_find_account(W.g_hash_table, u)
     IN f.found => f.account = saved[u].acc

\* the store W with p as the password of account u, in its card file and in
\* its index entry
WithPassword(W, u, p) ==
  LET acc == [saved[u].acc EXCEPT !.PASSWORD = p]
  IN [W EXCEPT !.cards[u] = StoredCard(W, acc),
               !.g_hash_table =
                  IF hash_find_account(@, u).found
                    THEN hash_update_account(@, acc, TRUE, TRUE).ht
                  ELSE @]

\* the requests of the push main() makes on the store W when the server
\* answers every call
StartupPush(W, order) ==
  LET i == init_account_system(W, TRUE, W.keyFile.bytes, TRUE, TRUE, TRUE, TRUE, order)
  IN sync_all_accounts_to_server(i.W, remote, "SERVER", order, UUIDs, TRUE).reqs

\* the requests of a deposit of 500 cents to u on the store W in Server mode,
\* the password typed being password
DepositRequests(W, u, password) ==
  Requests(deposit(W, remote, "SERVER", DirOrder, u, password,
                   [positive |-> TRUE, cents |-> U64(500)], "ok", TRUE).events)

\* C18 -- passwords are never sent: for an account the store holds as it was
\* saved, no step having been made to fail, the requests of the startup push, and those of a deposit made with
\* the account's password, are the same on the store and on the store that
\* differs from it only in that account's password.
C18_PasswordsNotSent ==
  \A u \in UUIDs : \A p \in PASSWORDS :
    (Stored(World, u) /\ ~faulted) =>
      /\ last.op = "restart" =>
           \A order \in Orders(CardFiles(World)) :
             StartupPush(World, order) = StartupPush(WithPassword(World, u, p), order)
      /\ Running =>
           DepositRequests(World, u, saved[u].acc.PASSWORD)
             = DepositRequests(WithPassword(World, u, p), u, p)

\* C15 -- startup reconciliation covers all accounts, however many: a push
\* whose requests all succeeded has sent a sync request for every card file of
\* the store, and a pull whose fetch succeeded has processed (counted as
\* success or failure) every account of the server's table.
C15_CoversAllAccounts ==
  [][ /\ (last'.op = "push" /\ last'.ok /\ g_run_mode = "SERVER") =>
          \A u \in CardFiles(World) :
            \E k \in DOMAIN last'.events : last'.events[k].uuid = u
      /\ (last'.op = "pull" /\ g_run_mode = "SERVER"
            /\ \E k \in DOMAIN last'.events :
                 last'.events[k].api = "fetch" /\ last'.events[k].ok) =>
          last'.count + last'.fail = Cardinality(RemoteAccounts(remote))]_vars

\* the identifiers the index calls have put into the table
Inserted == { u \in DOMAIN saved : saved[u].valid }

\* C19 -- resize preserves entries: once more than 0.75 * 16 distinct
\* identifiers have been inserted (the table has resized), hash_find_account
\* finds every inserted identifier with the value last inserted for it, and
\* count is the number of identifiers inserted.
C19_ResizePreservesEntries ==
  (last.op \in {"init_hash", "hash_insert", "hash_update"}
     /\ Cardinality(Inserted) * ThresholdDen > ThresholdNum * INITIAL_HASH_TABLE_SIZE) =>
    /\ g_hash_table.size > INITIAL_HASH_TABLE_SIZE
    /\ g_hash_table.count = Cardinality(Inserted)
    /\ \A u \in Inserted :
         /\ hash_find_account(g_hash_table, u).found
         /\ hash_find_account(g_hash_table, u).account = saved[u].acc

\* a table that resized with entries sharing buckets, all MaxEntries in it
C19_Witness ==
  /\ last.op = "hash_insert" /\ last.ret
  /\ Cardinality(Inserted) = MaxEntries
  /\ g_hash_table.size = 2 * INITIAL_HASH_TABLE_SIZE
  /\ \E j \in DOMAIN g_hash_table.buckets : Len(g_hash_table.buckets[j]) > 1

\* C20 -- idempotent upsert: a hash_insert_account or hash_update_account that
\* returns true for an identifier the table holds with another balance leaves
\* count as it was and makes hash_find_account return the value passed; a
\* hash_update_account that returns true for an absent identifier adds it as
\* a new entry.
C20_IdempotentUpsert ==
  [][ /\ (last'.op \in {"hash_insert", "hash_update"} /\ last'.ret
            /\ last'.src = "differs") =>
          /\ g_hash_table'.count = g_hash_table.count
          /\ hash_find_account(g_hash_table', last'.id).found
          /\ hash_find_account(g_hash_table', last'.id).account = last'.acc
      /\ (last'.op = "hash_update" /\ last'.ret /\ last'.src = "absent") =>
          /\ g_hash_table'.count = g_hash_table.count + 1
          /\ hash_find_account(g_hash_table', last'.id).found
          /\ hash_find_account(g_hash_table', last'.id).account = last'.acc ]_vars

\* a second hash_insert_account of an identifier with another balance, made
\* when the load factor makes the call resize the table first
C20_Witness ==
  /\ last.op = "hash_insert" /\ last.ret /\ last.src = "differs"
  /\ g_hash_table.count * ThresholdDen = ThresholdNum * INITIAL_HASH_TABLE_SIZE
  /\ g_hash_table.size = 2 * INITIAL_HASH_TABLE_SIZE

\* C21 -- load-factor invariant: right after a hash_insert_account that
\* returned true (called directly or by hash_update_account for an absent
\* identifier), count / size is at most 0.75, whatever inserts, updates and
\* deletes came before.
C21_LoadFactorBound ==
  (last.op \in {"hash_insert", "hash_update"} /\ last.ret) =>
    g_hash_table.count * ThresholdDen <= ThresholdNum * g_hash_table.size

\* an insert that filled the 16 buckets to exactly 0.75, made after a delete
C21_Witness ==
  /\ last.op = "hash_insert" /\ last.ret /\ last.src = "absent"
  /\ g_hash_table.size = INITIAL_HASH_TABLE_SIZE
  /\ g_hash_table.count * ThresholdDen = ThresholdNum * g_hash_table.size
  /\ \E u \in Repeated : ~saved[u].valid

\* C22 -- hash_delete_account: a call that returns true leaves the identifier
\* not found, count one lower and every other identifier found as before; a
\* call for an absent identifier returns false and leaves the table as it was.
C22_DeleteRemovesOne ==
  [][ /\ (last'.op = "hash_delete" /\ last'.ret) =>
          /\ ~hash_find_account(g_hash_table', last'.id).found
          /\ g_hash_table'.count = g_hash_table.count - 1
          /\ \A u \in HashIds \ {last'.id} :
               hash_find_account(g_hash_table', u) = hash_find_account(g_hash_table, u)
      /\ (last'.op = "hash_delete" /\ last'.src = "present") => last'.ret
      /\ (last'.op = "hash_delete" /\ last'.src = "absent") =>
          ~last'.ret /\ g_hash_table' = g_hash_table ]_vars

\* a delete that took the head of a chain after the resize, the rest staying
C22_Witness ==
  /\ last.op = "hash_delete" /\ last.ret
  /\ g_hash_table.size = 2 * INITIAL_HASH_TABLE_SIZE
  /\ g_hash_table.count = MaxEntries - 1
  /\ g_hash_table.buckets[hash_function(last.id, g_hash_table.size) + 1] # <<>>

\* C30 -- hash_insert_account resizes only for a new identifier: an insert of
\* an identifier the table already holds leaves the number of buckets as it
\* was, whatever the load factor.
C30_NoResizeForPresent ==
  [][ (last'.op = "hash_insert" /\ last'.src # "absent") =>
        g_hash_table'.size = g_hash_table.size ]_vars

\* C23 -- the cipher is self-inverse: under a loaded key every call xors byte
\* i of the buffer (counted from 0) with key[i mod 16], whatever the length,
\* and the buffer after two calls is the buffer before them.
C23_CipherSelfInverse ==
  (last.op = "xor" /\ g_key_loaded) =>
    LET n == Len(last.events) IN
    /\ \A i \in DOMAIN last.events[n] :
         last.events[n][i]
           = XorBits(last.events[n - 1][i], g_system_key[((i - 1) % 16) + 1], 8)
    /\ n >= 3 => last.events[n] = last.events[n - 2]

\* a buffer longer than the key, changed by the first call, after the second
C23_Witness ==
  /\ last.op = "xor" /\ Len(last.events) = 3
  /\ Len(last.events[1]) > KEY_SIZE
  /\ last.events[2] # last.events[1]
  /\ last.events[2][KEY_SIZE + 1] # last.events[1][KEY_SIZE + 1]

\* C24 -- after an init_account_system that returned true, every card file
\* that loads (as load_account reads it from the file, the index empty) is in
\* the index with the password and balance of its file, and a load_account of
\* its identifier is served from the index.
C24_PreloadFillsIndex ==
  [][ (last'.op = "init" /\ last'.ret) =>
        \A u \in UUIDs :
          LET read == load_account(
                        [World' EXCEPT
                           !.g_hash_table = init_account_hash_table(EmptyTable, TRUE).ht],
                        u, TRUE, TRUE, TRUE)
          IN read.ret =>
               /\ hash_find_account(g_hash_table', u)
                    = [found |-> TRUE, account |-> read.acc]
               /\ load_account(World', u, TRUE, TRUE, TRUE).src = "cache" ]_vars

\* C25 -- withdraw within the balance: in every state the program reaches, a
\* withdraw of any amount succeeds only if the balance it loads is at least
\* the amount, and then leaves the balance lower by the amount; when the
\* balance is below the amount it returns false, leaves the card files and
\* the balance as they were and sends no request.
C25_WithdrawWithinBalance ==
  Running =>
    \A u \in UUIDs : \A c \in {1, 200, 500, 501} : \A f \in SaveFaults :
      LET Cents(b) == b[1] + 256 * b[2] + 65536 * b[3]
          seen == load_account(list_all_accounts(World, DirOrder).W, u,
                               TRUE, TRUE, TRUE)
          r == withdraw(World, remote, g_run_mode, DirOrder, u, U64(1234688),
                        [positive |-> TRUE, cents |-> U64(c)], f.io, f.net_ok)
          left == load_account(r.W, u, TRUE, TRUE, TRUE)
      IN /\ r.ret =>
              /\ seen.ret /\ Cents(seen.acc.BALANCE) >= c
              /\ left.ret
              /\ left.acc.BALANCE = U64(Cents(seen.acc.BALANCE) - c)
         /\ (seen.ret /\ Cents(seen.acc.BALANCE) < c) =>
              /\ ~r.ret /\ r.events = <<>> /\ r.R = remote
              /\ r.W.cards = cards
              /\ left.acc.BALANCE = seen.acc.BALANCE

\* a withdraw of the whole balance in Server mode, mirrored to the server
C25_Witness ==
  /\ last.op = "withdraw" /\ last.ret /\ g_run_mode = "SERVER"
  /\ Len(last.events) = 2
  /\ last.events[1].kind = "save" /\ last.events[1].amount = U64(0)
  /\ last.events[2].api = "withdraw" /\ last.events[2].ok
  /\ hash_find_account(g_hash_table, last.id).account.BALANCE = U64(0)

\* C26 -- delete_account of an account with a balance above zero: in every
\* state the program reaches the call returns false, whatever is typed,
\* leaves the card file and the index entry as they were and sends no request.
C26_DeleteNeedsZeroBalance ==
  Running =>
    \A u \in UUIDs : \A confirm \in BOOLEAN : \A f \in DeleteFaults :
      LET l == list_all_accounts(World, DirOrder)
          seen == load_account(l.W, u, TRUE, TRUE, TRUE)
          r == delete_account(World, remote, g_run_mode, DirOrder, u,
                              seen.acc.PASSWORD, confirm, f.fs_ok, f.net_ok)
      IN (seen.ret /\ seen.acc.BALANCE # U64(0)) =>
           /\ ~r.ret /\ r.events = <<>> /\ r.removed = {} /\ r.R = remote
           /\ r.W.cards = cards
           /\ hash_find_account(r.W.g_hash_table, u)
                = [found |-> TRUE, account |-> seen.acc]

\* a delete_account that failed on an account holding 500 cents
C26_Witness ==
  /\ last.op = "delete_account" /\ ~last.ret /\ last.ok
  /\ cards[last.id].exists
  /\ hash_find_account(g_hash_table, last.id).found
  /\ hash_find_account(g_hash_table, last.id).account.BALANCE = U64(500)

\* C27 -- create_account and the password range: in every state the program
\* reaches, a call with a password below 1000000 or above 9999999 returns
\* false and writes, indexes and sends nothing; a call with a password in the
\* range whose save succeeds returns true and leaves the card file and the
\* index entry of a new account with that password and balance 0.
C27_PasswordRange ==
  Running =>
    \A uuid \in FreshIds : \A f \in SaveFaults :
      \A p \in {0, 999999, 1000000, 1234688, 9999999, 10000000} :
        LET r == create_account(World, remote, g_run_mode, U64(p), uuid, f.io,
                                f.net_ok)
            new == ACCOUNT(uuid, U64(p), U64(0))
        IN IF p < 1000000 \/ p > 9999999
             THEN /\ ~r.ret /\ r.events = <<>> /\ r.R = remote
                  /\ r.W = World
           ELSE /\ r.ret = (f.io = "ok")
                /\ r.ret =>
                     /\ r.W.cards[uuid] = StoredCard(World, new)
                     /\ hash_find_account(r.W.g_hash_table, uuid)
                          = [found |-> TRUE, account |-> new]

\* a create_account that stored a new account with balance 0
C27_Witness ==
  /\ last.op = "create_account" /\ last.ret
  /\ cards[last.id].exists
  /\ hash_find_account(g_hash_table, last.id).account
       = ACCOUNT(last.id, U64(1234688), U64(0))

\* C28 -- wrong password: in every state the program reaches, a deposit,
\* withdraw, transfer or delete_account given a password other than the one
\* of the (source) account it loads returns false, sends no request, leaves
\* every card file as it was and every index entry as it was.
C28_WrongPasswordChangesNothing ==
  Running =>
    \A u, to \in UUIDs : \A p \in {U64(0), U64(1234688), U64(7654321)} :
      LET l == list_all_accounts(World, DirOrder)
          seen == load_account(l.W, u, TRUE, TRUE, TRUE)
          amount == [positive |-> TRUE, cents |-> U64(500)]
          Untouched(r) ==
            /\ ~r.ret /\ r.events = <<>> /\ r.removed = {} /\ r.R = remote
            /\ r.W.cards = cards
            /\ \A v \in UUIDs :
                 hash_find_account(g_hash_table, v).found =>
                   hash_find_account(r.W.g_hash_table, v)
                     = hash_find_account(g_hash_table, v)
      IN (seen.ret /\ seen.acc.PASSWORD # p) =>
           /\ Untouched(deposit(World, remote, g_run_mode, DirOrder, u, p, amount,
                                "ok", TRUE))
           /\ Untouched(withdraw(World, remote, g_run_mode, DirOrder, u, p, amount,
                                 "ok", TRUE))
           /\ Untouched(transfer(World, remote, g_run_mode, DirOrder, u, p, to,
                                 amount, "ok", "ok", TRUE))
           /\ Untouched(delete_account(World, remote, g_run_mode, DirOrder, u, p,
                                       TRUE, TRUE, TRUE))

\* a transfer that failed with both accounts in the store, the source rich
\* enough, in Server mode
C28_Witness ==
  /\ last.op = "transfer" /\ ~last.ret /\ last.ok /\ last.events = <<>>
  /\ g_run_mode = "SERVER"
  /\ \A v \in UUIDs : hash_find_account(g_hash_table, v).found
  /\ hash_find_account(g_hash_table, last.id).account.BALANCE = U64(500)

\* C29 -- transfer saves twice without rollback: in every state the program
\* reaches, a transfer that gets as far as its saves and whose second save
\* fails after the first succeeded returns false, sends no request and leaves
\* the source debited and the target as it was, in the files and the index.
C29_NoRollback ==
  Running =>
    \A u, to \in UUIDs : \A c \in {1, 500} :
      LET Cents(b) == b[1] + 256 * b[2] + 65536 * b[3]
          l == list_all_accounts(World, DirOrder)
          from == load_account(l.W, u, TRUE, TRUE, TRUE)
          target == load_account(from.W, to, TRUE, TRUE, TRUE)
          debited == [from.acc EXCEPT !.BALANCE = U64(Cents(@) - c)]
          r == transfer(World, remote, g_run_mode, DirOrder, u, from.acc.PASSWORD,
                        to, [positive |-> TRUE, cents |-> U64(c)], "ok",
                        "open_fails", TRUE)
      IN (u # to /\ from.ret /\ target.ret /\ Cents(from.acc.BALANCE) >= c) =>
           /\ ~r.ret /\ Requests(r.events) = <<>> /\ r.R = remote
           /\ r.W.cards[u] = StoredCard(World, debited)
           /\ hash_find_account(r.W.g_hash_table, u)
                = [found |-> TRUE, account |-> debited]
           /\ r.W.cards[to] = cards[to]
           /\ hash_find_account(r.W.g_hash_table, to)
                = [found |-> TRUE, account |-> target.acc]

\* a transfer whose first save succeeded and whose second failed: the source
\* is left with 0, the target with what it had
C29_Witness ==
  /\ last.op = "transfer" /\ ~last.ret
  /\ Len(last.events) = 2 /\ last.events[1].ok /\ ~last.events[2].ok
  /\ hash_find_account(g_hash_table, last.id).account.BALANCE = U64(0)
  /\ hash_find_account(g_hash_table, last.events[2].uuid).account.BALANCE
       # last.events[2].amount

\* C31 -- cold cache: a load_account of an identifier the initialised index
\* does not hold, with the key loaded, no file or allocation step having
\* failed so far and the card file being what a complete save_account wrote
\* for some account under that key, returns true with that account, read from
\* the file, whatever the bytes of the encrypted block.
C31_ColdLoadReadsBlock ==
  [][(/\ last'.op = "load" /\ ~faulted'
      /\ g_hash_table.initialized /\ g_key_loaded
      /\ ~hash_find_account(g_hash_table, last'.id).found
      /\ \E acc \in Accounts : cards[last'.id] = CardOf(acc))
     => (/\ last'.ret /\ last'.src = "file"
         /\ cards[last'.id] = CardOf(last'.acc))]_vars

\* C32 -- chains are ordered most-recent-insert-first.  Stated step by step:
\* of two entries that share a bucket after a call, one that the call has just
\* inserted is nearer the head than one that was there before, and two that
\* shared a bucket before are in the order they had (the later inserted of the
\* two still nearer the head), also when the call has resized the table.
C32_ChainOrder ==
  [][\A u, v \in HashIds :
       LET Pos(ht, x) == ChainPos(ht.buckets[hash_function(x, ht.size) + 1], x)
           Share(ht) == hash_function(u, ht.size) = hash_function(v, ht.size)
       IN (/\ u # v /\ Share(g_hash_table')
           /\ Pos(g_hash_table', u) # 0 /\ Pos(g_hash_table', v) # 0)
          => /\ (Pos(g_hash_table, u) = 0 /\ Pos(g_hash_table, v) # 0)
                  => Pos(g_hash_table', u) < Pos(g_hash_table', v)
             /\ (/\ Pos(g_hash_table, u) # 0 /\ Pos(g_hash_table, v) # 0
                 /\ Share(g_hash_table)
                 /\ Pos(g_hash_table, u) < Pos(g_hash_table, v))
                  => Pos(g_hash_table', u) < Pos(g_hash_table', v)]_vars

\* C33 -- structure of the index after any calls of insert, update and delete,
\* resizes included: no two entries hold the same identifier, every entry lies
\* in bucket hash_function(identifier, size) of the current size, and count is
\* the number of entries chained in the buckets.
C33_IndexStructure ==
  g_hash_table.initialized =>
    LET nodes == Concat(g_hash_table.buckets, 1)
    IN /\ Len(g_hash_table.buckets) = g_hash_table.size
       /\ g_hash_table.count = Len(nodes)
       /\ \A i, j \in 1..Len(nodes) : i # j => nodes[i].UUID # nodes[j].UUID
       /\ \A b \in 1..g_hash_table.size :
            \A k \in 1..Len(g_hash_table.buckets[b]) :
               hash_function(g_hash_table.buckets[b][k].UUID, g_hash_table.size) + 1 = b

\* a delete that took an entry out of a resized table that keeps a chain of
\* two or more
C33_Witness ==
  /\ last.op = "hash_delete" /\ last.ret
  /\ g_hash_table.size > INITIAL_HASH_TABLE_SIZE
  /\ \E b \in 1..g_hash_table.size : Len(g_hash_table.buckets[b]) >= 2

\* C35 -- the bucket count never decreases while the table is initialised: a
\* call leaves it as it is or doubles it (a delete always leaves it), so it
\* is always INITIAL_HASH_TABLE_SIZE times a power of two.
C35_BucketsOnlyDouble ==
  [][/\ \/ g_hash_table'.size = g_hash_table.size
        \/ g_hash_table'.size = 2 * g_hash_table.size
     /\ last'.op = "hash_delete" => g_hash_table'.size = g_hash_table.size
     /\ g_hash_table'.size \in { INITIAL_HASH_TABLE_SIZE * 2^k : k \in 0..MaxEntries }
    ]_vars

\* a delete from a resized table that leaves fewer entries than make a table
\* of half the size resize
C35_Witness ==
  /\ last.op = "hash_delete" /\ last.ret
  /\ g_hash_table.size = 2 * INITIAL_HASH_TABLE_SIZE
  /\ g_hash_table.count * ThresholdDen < ThresholdNum * INITIAL_HASH_TABLE_SIZE

\* C34 -- a pointer hash_find_account returned stays valid: over any call
\* other than the delete of its identifier, resizing inserts included, the
\* entry of an identifier stays at the address it had, and no other entry is
\* at that address; the delete of the identifier leaves no entry for it.
C34_PointerStaysValid ==
  [][\A u \in HashIds :
       LET before == hash_find_account(g_hash_table, u)
           after == hash_find_account(g_hash_table', u)
       IN before.found =>
            IF last'.op = "hash_delete" /\ last'.id = u
              THEN ~after.found
            ELSE /\ after.found
                 /\ after.account.node = before.account.node
                 /\ Cardinality(NodesOf(g_hash_table')) = g_hash_table'.count]_vars

\* an insert of a new identifier into a table that has resized, while the
\* entry allocated first is still at its address, behind the head of its chain
C34_Witness ==
  /\ last.op = "hash_insert" /\ last.ret /\ last.src = "absent"
  /\ g_hash_table.size > INITIAL_HASH_TABLE_SIZE
  /\ g_hash_table.count = ((ThresholdNum * INITIAL_HASH_TABLE_SIZE) \div ThresholdDen) + 1
  /\ \E u \in HashIds :
       LET chain == g_hash_table.buckets[hash_function(u, g_hash_table.size) + 1]
       IN ChainPos(chain, u) > 1 /\ chain[ChainPos(chain, u)].node = 1

\* C36 -- the cache never diverges from the disk: whatever save_account,
\* load_account and delete_account_file calls were made and whichever of
\* their file steps failed, every entry of the hash index has an account file
\* that holds its identifier line and its password and balance, as
\* save_account writes them.
C36_CacheMatchesDisk ==
  \A u \in UUIDs :
     LET entry == hash_find_account(g_hash_table, u)
     IN entry.found => cards[u] = CardOf(entry.account)

\* C37 -- an account that delete_account removed does not come back at a later
\* startup: in every state in which an identifier was removed by
\* delete_account (and not created again since), the program restarted and
\* main() run in server mode, with init_account_system, the push and the pull
\* all succeeding, leaves no card file for that identifier, whether the remote
\* delete call of delete_account had succeeded or not.
C37_DeletedStaysDeleted ==
  \A u \in UUIDs :
     (Running /\ deleted[u] # "no" /\ ~cards[u].exists) =>
        LET cold == [World EXCEPT !.g_system_key = ZeroKey, !.g_key_loaded = FALSE,
                                  !.g_hash_table = EmptyTable]
            started == init_account_system(cold, TRUE, keyFile.bytes, TRUE, TRUE, TRUE,
                                           TRUE, DirOrder)
            push == sync_all_accounts_to_server(started.W, remote, "SERVER", DirOrder,
                                                CardFiles(World), TRUE)
            rorder == CHOOSE o \in Orders(RemoteAccounts(push.R)) : TRUE
            pull == pull_accounts_from_server(push.W, push.R, "SERVER", TRUE, rorder,
                                              RemoteAccounts(push.R), TRUE)
        IN ~pull.W.cards[u].exists

C39_UninitialisedIndexRefuses ==
  /\ ~g_hash_table.initialized =>
       /\ cleanup_account_hash_table(g_hash_table) = g_hash_table
       /\ \A acc \in Accounts : \A calloc_ok, malloc_ok \in BOOLEAN :
            /\ hash_insert_account(g_hash_table, acc, calloc_ok, malloc_ok)
                 = [ht |-> g_hash_table, ret |-> FALSE]
            /\ hash_update_account(g_hash_table, acc, calloc_ok, malloc_ok)
                 = [ht |-> g_hash_table, ret |-> FALSE]
            /\ hash_delete_account(g_hash_table, acc.UUID)
                 = [ht |-> g_hash_table, ret |-> FALSE]
            /\ ~hash_find_account(g_hash_table, acc.UUID).found
       /\ (last.op = "save" /\ last.ret) => last.hash = "failed"
  /\ g_hash_table.initialized =>
       /\ \A calloc_ok \in BOOLEAN :
            init_account_hash_table(g_hash_table, calloc_ok)
              = [ht |-> g_hash_table, ret |-> TRUE]
       /\ ~cleanup_account_hash_table(g_hash_table).initialized

\* a save_account whose index step was refused by a table that is not
\* initialised, while another account has its file on disk
C39_Witness ==
  /\ ~g_hash_table.initialized /\ cardDir
  /\ last.op = "save" /\ last.ret /\ last.hash = "failed"
  /\ \E u \in UUIDs \ {last.id} : cards[u].exists /\ saved[u].valid

\* C40 -- every transaction the server's Transfer began is committed or
\* rolled back when Transfer returns, on every return path, and a Transfer
\* that returns an error leaves both balances as they were.
C40_TransactionEnded ==
  [][last'.op = "Transfer" =>
       /\ last'.events # <<>> =>
            \E k \in 1..Len(last'.events) : last'.events[k].kind \in {"Commit", "Rollback"}
       /\ ~last'.ret => remote' = remote]_vars

====
